---------------------------- MODULE Spec2Model ----------------------------
(***************************************************************************)
(* Admission-control layer of the node (node/src/network/security.rs):     *)
(* the /24 and /16 subnet trackers, the per-IP exponential-backoff rate    *)
(* limiter, the global sliding-window rate limiter and the total           *)
(* connection tracker.                                                     *)
(*                                                                         *)
(* Every Rust struct is a record with the struct's field names, every      *)
(* method is an operator from the receiver (and arguments) to the new      *)
(* receiver and/or the returned value, and every specification below       *)
(* drives one group of structs through calls of those methods.             *)
(***************************************************************************)
EXTENDS Integers, Sequences, FiniteSets, TLC

VARIABLES
    subnet24,     \* SubnetTracker      {connections, max_per_subnet}
    subnet16,     \* Subnet16Tracker    {connections, max_per_subnet}
    limiter,      \* ConnectionRateLimiter {attempts, base_delay, max_delay, max_failures}
    global,       \* GlobalConnectionRateLimiter {connection_times, max_per_window, window_duration}
    tracker,      \* ConnectionTracker  {connections, max_connections}
    now,          \* the monotonic clock read by Instant::now() / elapsed()
    result,       \* the last call made: [op, ip, ok, prev], prev being the count
                  \* (of the IP's prefix, of the tracked set, of the IP's failures,
                  \* of the stored admissions) that the receiver held before the call
    admitted,     \* history: the times at which record_new_connection returned true,
                  \* or the connections that add_connection accepted and that were
                  \* not removed since
    pc,           \* position of each caller of the trackers
    probe         \* input of a pure function under evaluation: the last calculate_delay
                  \* evaluation, or the configuration handed to the validators; in
                  \* SpecIsolation the ConnectionRateLimiter of the second run

vars == <<subnet24, subnet16, limiter, global, tracker, now, result, admitted, pc, probe>>

-----------------------------------------------------------------------------
(* Program constants *)

MAX_PEERS_PER_SUBNET_24 == 5
MAX_PEERS_PER_SUBNET_16 == 3

-----------------------------------------------------------------------------
(* Bounds of the model *)

\* with_limit(l) is explored for l in 0..MaxLimit (new() adds the default limit)
MaxLimit == 2
\* ConnectionTracker::new(k) is explored for k in 0..MaxConn
MaxConn == 3
\* the clock runs over the instants 0..MaxTime (one tick is the unit of Duration)
MaxTime == 5
\* GlobalConnectionRateLimiter::with_window(m, w) is explored for m in
\* 0..MaxPerWindow and w in 0..MaxWindow
MaxPerWindow == 3
MaxWindow == 3
\* at most MaxAdmitted admissions are recorded in the history of one run
MaxAdmitted == 6
\* ConnectionRateLimiter::with_config(b, d, f) is explored for b in
\* 0..MaxBaseDelay, d in 0..MaxDelay and f in 0..MaxFailures
MaxBaseDelay == 1
MaxDelay == 2
MaxFailures == 3
\* cleanup(max_age) is explored for max_age in 0..MaxAge
MaxAge == 2
\* with_config is also explored with max_failures = DeepMaxFailures, so that
\* failure counts above 32 are reached before the IP is blocked
DeepMaxFailures == 36
\* NumCallers callers use the trackers concurrently
NumCallers == 3
\* the admission pipeline serves at most NumSlots connections at a time, at
\* the instants 0..PipelineMaxTime
NumSlots == 2
PipelineMaxTime == 2
\* the two runs of SpecIsolation share a clock over the instants 0..IsolationMaxTime
IsolationMaxTime == 2
\* calculate_delay is evaluated for failure counts 0..MaxProbe
MaxProbe == 70
\* Durations saturate at Duration_MAX ticks (the stand-in for Duration::MAX,
\* far above every delay and age of the model)
Duration_MAX == 1073741823

-----------------------------------------------------------------------------
(* std::net::IpAddr: an IPv4 address with its four octets, or an IPv6      *)
(* address (its bits never matter to this module, only its identity).      *)

V4(a, b, c, d) == [v |-> 4, octets |-> <<a, b, c, d>>]
V6(n) == [v |-> 6, octets |-> <<n>>]

\* Two addresses of one /24, a third of the same /16, a fourth of another /16.
Ipv4Addrs == {V4(10, 0, 0, 1), V4(10, 0, 0, 2), V4(10, 0, 1, 1), V4(11, 0, 0, 1)}
Ipv6Addrs == {V6(1)}
IpAddrs == Ipv4Addrs \cup Ipv6Addrs

\* Option<T>: None is the empty sequence, Some(x) the one-element sequence.
None == <<>>
Some(x) == <<x>>

\* std::collections::HashMap as a function on the set of present keys.
EmptyMap == [k \in {} |-> 0]
MapGetOr(m, k, dflt) == IF k \in DOMAIN m THEN m[k] ELSE dflt
MapInsert(m, k, val) == [x \in (DOMAIN m) \cup {k} |-> IF x = k THEN val ELSE m[x]]
MapRemove(m, k) == [x \in (DOMAIN m) \ {k} |-> m[x]]

RECURSIVE SumOver(_, _)
SumOver(m, keys) ==
    IF keys = {} THEN 0
    ELSE LET k == CHOOSE x \in keys : TRUE IN m[k] + SumOver(m, keys \ {k})

\* usize::saturating_sub
saturating_sub(a, b) == IF a >= b THEN a - b ELSE 0

NoCall == [op |-> "none", ip |-> V6(0), ok |-> TRUE, prev |-> 0]
Call(op, ip, ok, prev) == [op |-> op, ip |-> ip, ok |-> ok, prev |-> prev]

-----------------------------------------------------------------------------
(* SubnetTracker (/24) *)

SubnetTracker_new == [connections |-> EmptyMap, max_per_subnet |-> MAX_PEERS_PER_SUBNET_24]
SubnetTracker_with_limit(max_per_subnet) ==
    [connections |-> EmptyMap, max_per_subnet |-> max_per_subnet]

extract_subnet_24(ip) ==
    IF ip.v = 4 THEN Some(<<ip.octets[1], ip.octets[2], ip.octets[3]>>) ELSE None

\* Mutant: an IPv6 address is grouped under a prefix made of its first segment.
extract_subnet_16_V6Grouped(ip) ==
    IF ip.v = 4 THEN Some(<<ip.octets[1], ip.octets[2]>>) ELSE Some(<<ip.octets[1], 0>>)

extract_subnet_16(ip) ==
    IF ip.v = 4 THEN Some(<<ip.octets[1], ip.octets[2]>>) ELSE None

SubnetTracker_can_accept_connection(self, ip) ==
    LET subnet == extract_subnet_24(ip) IN
    IF subnet # None
    THEN MapGetOr(self.connections, subnet[1], 0) < self.max_per_subnet
    ELSE TRUE

\* Mutant: add_connection counts the connection without testing the limit
\* (it relies on the caller's can_accept_connection pre-flight).
SubnetTracker_add_connection_NoLimit(self, ip) ==
    LET subnet == extract_subnet_24(ip) IN
    IF subnet # None
    THEN [self |-> [self EXCEPT !.connections =
                        MapInsert(self.connections, subnet[1],
                                  MapGetOr(self.connections, subnet[1], 0) + 1)],
          ok |-> TRUE]
    ELSE [self |-> self, ok |-> TRUE]

\* Mutant: the limit test of add_connection is off by one (> instead of >=).
SubnetTracker_add_connection_OffByOne(self, ip) ==
    LET subnet == extract_subnet_24(ip) IN
    IF subnet # None
    THEN LET entered == IF subnet[1] \in DOMAIN self.connections
                        THEN self.connections
                        ELSE MapInsert(self.connections, subnet[1], 0)
             current == entered[subnet[1]]
         IN IF current > self.max_per_subnet
            THEN [self |-> [self EXCEPT !.connections = entered], ok |-> FALSE]
            ELSE [self |-> [self EXCEPT !.connections =
                                MapInsert(entered, subnet[1], current + 1)],
                  ok |-> TRUE]
    ELSE [self |-> self, ok |-> TRUE]

\* Mutant: add_connection tests the limit against the connections of all
\* prefixes together instead of the address's own prefix.
SubnetTracker_add_connection_TotalLimit(self, ip) ==
    LET subnet == extract_subnet_24(ip) IN
    IF subnet # None
    THEN LET entered == IF subnet[1] \in DOMAIN self.connections
                        THEN self.connections
                        ELSE MapInsert(self.connections, subnet[1], 0)
             current == entered[subnet[1]]
         IN IF SumOver(entered, DOMAIN entered) >= self.max_per_subnet
            THEN [self |-> [self EXCEPT !.connections = entered], ok |-> FALSE]
            ELSE [self |-> [self EXCEPT !.connections =
                                MapInsert(entered, subnet[1], current + 1)],
                  ok |-> TRUE]
    ELSE [self |-> self, ok |-> TRUE]

\* entry(subnet).or_insert(0) inserts the key before the limit is tested, so
\* the entry stays in the map when the call returns Err.
SubnetTracker_add_connection(self, ip) ==
    LET subnet == extract_subnet_24(ip) IN
    IF subnet # None
    THEN LET entered == IF subnet[1] \in DOMAIN self.connections
                        THEN self.connections
                        ELSE MapInsert(self.connections, subnet[1], 0)
             current == entered[subnet[1]]
         IN IF current >= self.max_per_subnet
            THEN [self |-> [self EXCEPT !.connections = entered], ok |-> FALSE]
            ELSE [self |-> [self EXCEPT !.connections =
                                MapInsert(entered, subnet[1], current + 1)],
                  ok |-> TRUE]
    ELSE [self |-> self, ok |-> TRUE]

\* Mutant: remove_connection deletes the prefix entry whatever its count.
SubnetTracker_remove_connection_ClearsPrefix(self, ip) ==
    LET subnet == extract_subnet_24(ip) IN
    IF subnet # None /\ subnet[1] \in DOMAIN self.connections
    THEN [self EXCEPT !.connections = MapRemove(self.connections, subnet[1])]
    ELSE self

SubnetTracker_remove_connection(self, ip) ==
    LET subnet == extract_subnet_24(ip) IN
    IF subnet # None /\ subnet[1] \in DOMAIN self.connections
    THEN LET count == saturating_sub(self.connections[subnet[1]], 1) IN
         IF count = 0
         THEN [self EXCEPT !.connections = MapRemove(self.connections, subnet[1])]
         ELSE [self EXCEPT !.connections = MapInsert(self.connections, subnet[1], count)]
    ELSE self

SubnetTracker_connection_count(self, ip) ==
    LET subnet == extract_subnet_24(ip) IN
    IF subnet # None THEN MapGetOr(self.connections, subnet[1], 0) ELSE 0

SubnetTracker_total_connections(self) ==
    SumOver(self.connections, DOMAIN self.connections)

-----------------------------------------------------------------------------
(* Subnet16Tracker (/16) *)

Subnet16Tracker_new == [connections |-> EmptyMap, max_per_subnet |-> MAX_PEERS_PER_SUBNET_16]
Subnet16Tracker_with_limit(max_per_subnet) ==
    [connections |-> EmptyMap, max_per_subnet |-> max_per_subnet]

\* Mutant: can_accept_connection still answers true at the limit (<= for <).
Subnet16Tracker_can_accept_connection_AtLimit(self, ip) ==
    LET subnet == extract_subnet_16(ip) IN
    IF subnet # None
    THEN MapGetOr(self.connections, subnet[1], 0) <= self.max_per_subnet
    ELSE TRUE

Subnet16Tracker_can_accept_connection(self, ip) ==
    LET subnet == extract_subnet_16(ip) IN
    IF subnet # None
    THEN MapGetOr(self.connections, subnet[1], 0) < self.max_per_subnet
    ELSE TRUE

\* Mutant: add_connection counts the connection without testing the limit.
Subnet16Tracker_add_connection_NoLimit(self, ip) ==
    LET subnet == extract_subnet_16(ip) IN
    IF subnet # None
    THEN [self |-> [self EXCEPT !.connections =
                        MapInsert(self.connections, subnet[1],
                                  MapGetOr(self.connections, subnet[1], 0) + 1)],
          ok |-> TRUE]
    ELSE [self |-> self, ok |-> TRUE]

Subnet16Tracker_add_connection(self, ip) ==
    LET subnet == extract_subnet_16(ip) IN
    IF subnet # None
    THEN LET entered == IF subnet[1] \in DOMAIN self.connections
                        THEN self.connections
                        ELSE MapInsert(self.connections, subnet[1], 0)
             current == entered[subnet[1]]
         IN IF current >= self.max_per_subnet
            THEN [self |-> [self EXCEPT !.connections = entered], ok |-> FALSE]
            ELSE [self |-> [self EXCEPT !.connections =
                                MapInsert(entered, subnet[1], current + 1)],
                  ok |-> TRUE]
    ELSE [self |-> self, ok |-> TRUE]

Subnet16Tracker_remove_connection(self, ip) ==
    LET subnet == extract_subnet_16(ip) IN
    IF subnet # None /\ subnet[1] \in DOMAIN self.connections
    THEN LET count == saturating_sub(self.connections[subnet[1]], 1) IN
         IF count = 0
         THEN [self EXCEPT !.connections = MapRemove(self.connections, subnet[1])]
         ELSE [self EXCEPT !.connections = MapInsert(self.connections, subnet[1], count)]
    ELSE self

Subnet16Tracker_connection_count(self, ip) ==
    LET subnet == extract_subnet_16(ip) IN
    IF subnet # None THEN MapGetOr(self.connections, subnet[1], 0) ELSE 0

Subnet16Tracker_total_connections(self) ==
    SumOver(self.connections, DOMAIN self.connections)

-----------------------------------------------------------------------------
(* ConnectionTracker: the set of connected peer IPs under a hard maximum *)

ConnectionTracker_new(max_connections) ==
    [connections |-> {}, max_connections |-> max_connections]

ConnectionTracker_can_accept_connection(self) ==
    Cardinality(self.connections) < self.max_connections

\* Mutant: the maximum test of add_connection is off by one (> instead of >=).
ConnectionTracker_add_connection_OffByOne(self, ip) ==
    IF ip \in self.connections
    THEN [self |-> self, ok |-> TRUE]
    ELSE IF Cardinality(self.connections) > self.max_connections
         THEN [self |-> self, ok |-> FALSE]
         ELSE [self |-> [self EXCEPT !.connections = @ \cup {ip}], ok |-> TRUE]

\* Mutant: add_connection tests the maximum before the membership.
ConnectionTracker_add_connection_LimitFirst(self, ip) ==
    IF Cardinality(self.connections) >= self.max_connections
    THEN [self |-> self, ok |-> FALSE]
    ELSE [self |-> [self EXCEPT !.connections = @ \cup {ip}], ok |-> TRUE]

\* Mutant: add_connection inserts the IP before it tests the maximum.
ConnectionTracker_add_connection_InsertsFirst(self, ip) ==
    IF ip \in self.connections
    THEN [self |-> self, ok |-> TRUE]
    ELSE IF Cardinality(self.connections) >= self.max_connections
         THEN [self |-> [self EXCEPT !.connections = @ \cup {ip}], ok |-> FALSE]
         ELSE [self |-> [self EXCEPT !.connections = @ \cup {ip}], ok |-> TRUE]

ConnectionTracker_add_connection(self, ip) ==
    IF ip \in self.connections
    THEN [self |-> self, ok |-> TRUE]
    ELSE IF Cardinality(self.connections) >= self.max_connections
         THEN [self |-> self, ok |-> FALSE]
         ELSE [self |-> [self EXCEPT !.connections = @ \cup {ip}], ok |-> TRUE]

\* Mutant: remove_connection of an untracked IP evicts some tracked IP.
ConnectionTracker_remove_connection_Evicts(self, ip) ==
    IF ip \in self.connections \/ self.connections = {}
    THEN [self EXCEPT !.connections = @ \ {ip}]
    ELSE [self EXCEPT !.connections = @ \ {CHOOSE x \in self.connections : TRUE}]

\* Mutant: remove_connection of a tracked IP empties the tracked set.
ConnectionTracker_remove_connection_Clears(self, ip) ==
    IF ip \in self.connections
    THEN [self EXCEPT !.connections = {}]
    ELSE self

ConnectionTracker_remove_connection(self, ip) ==
    [self EXCEPT !.connections = @ \ {ip}]

ConnectionTracker_has_connection(self, ip) == ip \in self.connections

ConnectionTracker_current_count(self) == Cardinality(self.connections)

ConnectionTracker_remaining_capacity(self) ==
    saturating_sub(self.max_connections, Cardinality(self.connections))

-----------------------------------------------------------------------------
(* GlobalConnectionRateLimiter: sliding window over admission instants.    *)
(* An Instant is a number of ticks, a Duration a number of ticks.          *)

\* Instant::duration_since (saturates to zero for a later instant)
duration_since(later, earlier) == IF later >= earlier THEN later - earlier ELSE 0

GlobalConnectionRateLimiter_with_window(max_per_window, window_duration) ==
    [connection_times |-> <<>>,
     max_per_window |-> max_per_window,
     window_duration |-> window_duration]

RECURSIVE Retain(_, _, _)
\* Vec::retain with the closure |&t| at.duration_since(t) < window
Retain(times, at, window) ==
    IF times = <<>> THEN <<>>
    ELSE IF duration_since(at, Head(times)) < window
         THEN <<Head(times)>> \o Retain(Tail(times), at, window)
         ELSE Retain(Tail(times), at, window)

\* Mutant: fixed buckets; once the oldest admission has aged out, the whole
\* window is emptied.
GlobalConnectionRateLimiter_cleanup_expired_FixedBoundary(self, at) ==
    IF /\ self.connection_times # <<>>
       /\ ~(duration_since(at, Head(self.connection_times)) < self.window_duration)
    THEN [self EXCEPT !.connection_times = <<>>]
    ELSE self

\* Mutant: cleanup_expired prunes nothing.
GlobalConnectionRateLimiter_cleanup_expired_KeepsAll(self, at) == self

GlobalConnectionRateLimiter_cleanup_expired(self, at) ==
    [self EXCEPT !.connection_times = Retain(self.connection_times, at, self.window_duration)]

\* Mutant: can_accept_new_connection counts every stored instant, expired or not.
GlobalConnectionRateLimiter_can_accept_new_connection_Unfiltered(self, at) ==
    Len(self.connection_times) < self.max_per_window

GlobalConnectionRateLimiter_can_accept_new_connection(self, at) ==
    LET active_count == Len(Retain(self.connection_times, at, self.window_duration))
    IN active_count < self.max_per_window

\* Mutant: the cap test of record_new_connection is off by one (> instead of >=).
GlobalConnectionRateLimiter_record_new_connection_OffByOne(self, at) ==
    LET cleaned == GlobalConnectionRateLimiter_cleanup_expired(self, at) IN
    IF Len(cleaned.connection_times) > cleaned.max_per_window
    THEN [self |-> cleaned, ok |-> FALSE]
    ELSE [self |-> [cleaned EXCEPT !.connection_times = Append(@, at)], ok |-> TRUE]

\* Mutant: a rejected record_new_connection starts a fresh window.
GlobalConnectionRateLimiter_record_new_connection_RejectClears(self, at) ==
    LET cleaned == GlobalConnectionRateLimiter_cleanup_expired(self, at) IN
    IF Len(cleaned.connection_times) >= cleaned.max_per_window
    THEN [self |-> [cleaned EXCEPT !.connection_times = <<>>], ok |-> FALSE]
    ELSE [self |-> [cleaned EXCEPT !.connection_times = Append(@, at)], ok |-> TRUE]

GlobalConnectionRateLimiter_record_new_connection(self, at) ==
    LET cleaned == GlobalConnectionRateLimiter_cleanup_expired(self, at) IN
    IF Len(cleaned.connection_times) >= cleaned.max_per_window
    THEN [self |-> cleaned, ok |-> FALSE]
    ELSE [self |-> [cleaned EXCEPT !.connection_times = Append(@, at)], ok |-> TRUE]

GlobalConnectionRateLimiter_current_count(self, at) ==
    Len(Retain(self.connection_times, at, self.window_duration))

GlobalConnectionRateLimiter_remaining_capacity(self, at) ==
    saturating_sub(self.max_per_window, GlobalConnectionRateLimiter_current_count(self, at))

-----------------------------------------------------------------------------
(* ConnectionRateLimiter: per-IP exponential backoff.                      *)
(* attempts maps an IP to the tuple (last_attempt, failure_count).          *)

\* An unsigned machine integer is the set of the positions of its 1 bits, so
\* that 2^63 and a cast to a narrower type are computed at their real width.
Bits(width) == 0..(width - 1)

\* 2u64.saturating_pow(exp): 2^exp, or u64::MAX when 2^exp does not fit 64 bits
u64_2_saturating_pow(exp) == IF exp < 64 THEN {exp} ELSE Bits(64)

\* `x as u32` of a u64: the low 32 bits
as_u32(bits) == bits \cap Bits(32)

\* d * 2^i, saturating at Duration_MAX (once zero or saturated, doubling
\* changes nothing)
RECURSIVE ShiftLeftSaturating(_, _)
ShiftLeftSaturating(d, i) ==
    IF i = 0 \/ d = 0 \/ d = Duration_MAX THEN d
    ELSE ShiftLeftSaturating(IF d > Duration_MAX \div 2 THEN Duration_MAX ELSE 2 * d, i - 1)

\* Duration::saturating_mul(d, rhs: u32), rhs given by its bits: the sum of
\* d * 2^i over the bits i of rhs, highest bit first, saturating at Duration_MAX
RECURSIVE Duration_saturating_mul(_, _)
Duration_saturating_mul(d, bits) ==
    IF bits = {} \/ d = 0 THEN 0
    ELSE LET i == CHOOSE x \in bits : \A y \in bits : y <= x
             term == ShiftLeftSaturating(d, i)
         IN IF term = Duration_MAX THEN Duration_MAX
            ELSE LET rest == Duration_saturating_mul(d, bits \ {i})
                 IN IF term > Duration_MAX - rest THEN Duration_MAX ELSE term + rest

Min(a, b) == IF a <= b THEN a ELSE b

ConnectionRateLimiter_with_config(base_delay, max_delay, max_failures) ==
    [attempts |-> EmptyMap,
     base_delay |-> base_delay,
     max_delay |-> max_delay,
     max_failures |-> max_failures]

\* Mutant: calculate_delay without the max_delay cap.
ConnectionRateLimiter_calculate_delay_Uncapped(self, failures) ==
    IF failures = 0 THEN 0
    ELSE LET multiplier == u64_2_saturating_pow(failures - 1)
         IN Duration_saturating_mul(self.base_delay, as_u32(multiplier))

ConnectionRateLimiter_calculate_delay(self, failures) ==
    IF failures = 0 THEN 0
    ELSE LET multiplier == u64_2_saturating_pow(failures - 1)
             delay == Duration_saturating_mul(self.base_delay, as_u32(multiplier))
         IN Min(delay, self.max_delay)

\* Instant::elapsed of a stored instant, read at the instant `at`
elapsed(instant, at) == duration_since(at, instant)

\* Mutant: can_attempt without the max_failures test.
ConnectionRateLimiter_can_attempt_NoBlock(self, ip, at) ==
    IF ip \in DOMAIN self.attempts
    THEN LET last_attempt == self.attempts[ip][1]
             failures == self.attempts[ip][2]
             required_delay == ConnectionRateLimiter_calculate_delay(self, failures)
         IN elapsed(last_attempt, at) >= required_delay
    ELSE TRUE

ConnectionRateLimiter_can_attempt(self, ip, at) ==
    IF ip \in DOMAIN self.attempts
    THEN LET last_attempt == self.attempts[ip][1]
             failures == self.attempts[ip][2]
         IN IF failures >= self.max_failures
            THEN FALSE
            ELSE LET required_delay == ConnectionRateLimiter_calculate_delay(self, failures)
                 IN elapsed(last_attempt, at) >= required_delay
    ELSE TRUE

\* Mutant: time_until_allowed returns the whole required delay, not what is
\* left of it.
ConnectionRateLimiter_time_until_allowed_WholeDelay(self, ip, at) ==
    IF ip \in DOMAIN self.attempts
    THEN LET last_attempt == self.attempts[ip][1]
             failures == self.attempts[ip][2]
         IN IF failures >= self.max_failures
            THEN Duration_MAX
            ELSE LET required_delay == ConnectionRateLimiter_calculate_delay(self, failures)
                     el == elapsed(last_attempt, at)
                 IN IF el >= required_delay THEN 0 ELSE required_delay
    ELSE 0

ConnectionRateLimiter_time_until_allowed(self, ip, at) ==
    IF ip \in DOMAIN self.attempts
    THEN LET last_attempt == self.attempts[ip][1]
             failures == self.attempts[ip][2]
         IN IF failures >= self.max_failures
            THEN Duration_MAX
            ELSE LET required_delay == ConnectionRateLimiter_calculate_delay(self, failures)
                     el == elapsed(last_attempt, at)
                 IN IF el >= required_delay THEN 0 ELSE required_delay - el
    ELSE 0

\* Mutant: record_attempt overwrites the record (insert instead of
\* entry().or_insert()), losing the failure count.
ConnectionRateLimiter_record_attempt_Overwrites(self, ip, at) ==
    [self EXCEPT !.attempts = MapInsert(self.attempts, ip, <<at, 0>>)]

ConnectionRateLimiter_record_attempt(self, ip, at) ==
    LET entry == MapGetOr(self.attempts, ip, <<at, 0>>) IN
    [self EXCEPT !.attempts = MapInsert(self.attempts, ip, <<at, entry[2]>>)]

\* u32::saturating_add.  The largest integer of the model checker stands for
\* u32::MAX; no failure count of the specifications below comes near it.
u32_MAX == 2147483647
u32_saturating_add(a, b) == IF a > u32_MAX - b THEN u32_MAX ELSE a + b

ConnectionRateLimiter_record_failure(self, ip, at) ==
    LET entry == MapGetOr(self.attempts, ip, <<at, 0>>) IN
    [self EXCEPT !.attempts =
        MapInsert(self.attempts, ip, <<at, u32_saturating_add(entry[2], 1)>>)]

\* Mutant: record_success forgives one failure instead of removing the record.
ConnectionRateLimiter_record_success_ForgiveOne(self, ip) ==
    IF ip \in DOMAIN self.attempts
    THEN [self EXCEPT !.attempts =
              MapInsert(self.attempts, ip,
                        <<self.attempts[ip][1], saturating_sub(self.attempts[ip][2], 1)>>)]
    ELSE self

\* Mutant: record_success clears the whole map.
ConnectionRateLimiter_record_success_ClearsAll(self, ip) ==
    [self EXCEPT !.attempts = EmptyMap]

ConnectionRateLimiter_record_success(self, ip) ==
    [self EXCEPT !.attempts = MapRemove(self.attempts, ip)]

ConnectionRateLimiter_failure_count(self, ip) ==
    IF ip \in DOMAIN self.attempts THEN self.attempts[ip][2] ELSE 0

ConnectionRateLimiter_cleanup(self, max_age, at) ==
    LET kept == {ip \in DOMAIN self.attempts : elapsed(self.attempts[ip][1], at) < max_age}
    IN [self EXCEPT !.attempts = [ip \in kept |-> self.attempts[ip]]]

-----------------------------------------------------------------------------
(* Values of the structs that a specification does not drive *)

IdleSubnet24 == SubnetTracker_new
IdleSubnet16 == Subnet16Tracker_new
IdleLimiter == [attempts |-> EmptyMap, base_delay |-> 0, max_delay |-> 0, max_failures |-> 0]
IdleGlobal == [connection_times |-> <<>>, max_per_window |-> 0, window_duration |-> 0]
IdleTracker == [connections |-> {}, max_connections |-> 0]
IdleProbe == [failures |-> 0, delay |-> 0]

-----------------------------------------------------------------------------
(* Spec24: one SubnetTracker, built by new() or with_limit(l), under any   *)
(* sequence of can_accept_connection / add_connection / remove_connection  *)
(* calls.  Spec16: the same for one Subnet16Tracker.                       *)

Init24 ==
    /\ subnet24 \in {SubnetTracker_new} \cup {SubnetTracker_with_limit(l) : l \in 0..MaxLimit}
    /\ subnet16 = IdleSubnet16
    /\ limiter = IdleLimiter
    /\ global = IdleGlobal
    /\ tracker = IdleTracker
    /\ now = 0
    /\ result = NoCall
    /\ admitted = <<>>
    /\ pc = <<>>
    /\ probe = IdleProbe

Init16 ==
    /\ subnet24 = IdleSubnet24
    /\ subnet16 \in {Subnet16Tracker_new} \cup {Subnet16Tracker_with_limit(l) : l \in 0..MaxLimit}
    /\ limiter = IdleLimiter
    /\ global = IdleGlobal
    /\ tracker = IdleTracker
    /\ now = 0
    /\ result = NoCall
    /\ admitted = <<>>
    /\ pc = <<>>
    /\ probe = IdleProbe

\* Mutant: can_accept_connection looks its prefix up with entry().or_insert(0)
\* as add_connection does, leaving a zero-count entry for a new prefix.
CanAccept24_Inserting(ip) ==
    LET subnet == extract_subnet_24(ip) IN
    /\ subnet24' = IF subnet # None /\ subnet[1] \notin DOMAIN subnet24.connections
                   THEN [subnet24 EXCEPT !.connections = MapInsert(@, subnet[1], 0)]
                   ELSE subnet24
    /\ result' = Call("can_accept24", ip, SubnetTracker_can_accept_connection(subnet24, ip),
                      SubnetTracker_connection_count(subnet24, ip))
    /\ UNCHANGED <<subnet16, limiter, global, tracker, now, admitted, pc, probe>>

CanAccept24(ip) ==
    /\ result' = Call("can_accept24", ip, SubnetTracker_can_accept_connection(subnet24, ip),
                      SubnetTracker_connection_count(subnet24, ip))
    /\ UNCHANGED <<subnet24, subnet16, limiter, global, tracker, now, admitted, pc, probe>>

Add24(ip) ==
    LET r == SubnetTracker_add_connection(subnet24, ip) IN
    /\ subnet24' = r.self
    /\ result' = Call("add24", ip, r.ok, SubnetTracker_connection_count(subnet24, ip))
    /\ UNCHANGED <<subnet16, limiter, global, tracker, now, admitted, pc, probe>>

Remove24(ip) ==
    /\ subnet24' = SubnetTracker_remove_connection(subnet24, ip)
    /\ result' = Call("remove24", ip, TRUE, SubnetTracker_connection_count(subnet24, ip))
    /\ UNCHANGED <<subnet16, limiter, global, tracker, now, admitted, pc, probe>>

CanAccept16(ip) ==
    /\ result' = Call("can_accept16", ip, Subnet16Tracker_can_accept_connection(subnet16, ip),
                      Subnet16Tracker_connection_count(subnet16, ip))
    /\ UNCHANGED <<subnet24, subnet16, limiter, global, tracker, now, admitted, pc, probe>>

Add16(ip) ==
    LET r == Subnet16Tracker_add_connection(subnet16, ip) IN
    /\ subnet16' = r.self
    /\ result' = Call("add16", ip, r.ok, Subnet16Tracker_connection_count(subnet16, ip))
    /\ UNCHANGED <<subnet24, limiter, global, tracker, now, admitted, pc, probe>>

Remove16(ip) ==
    /\ subnet16' = Subnet16Tracker_remove_connection(subnet16, ip)
    /\ result' = Call("remove16", ip, TRUE, Subnet16Tracker_connection_count(subnet16, ip))
    /\ UNCHANGED <<subnet24, limiter, global, tracker, now, admitted, pc, probe>>

Next24 ==
    \E ip \in IpAddrs :
        \/ CanAccept24(ip)
        \/ Add24(ip)
        \/ Remove24(ip)

Spec24 == Init24 /\ [][Next24]_vars

Next16 ==
    \E ip \in IpAddrs :
        \/ CanAccept16(ip)
        \/ Add16(ip)
        \/ Remove16(ip)

Spec16 == Init16 /\ [][Next16]_vars

\* C1: in every state reached by add_connection / remove_connection calls on a
\* SubnetTracker with limit L, every /24 prefix counts at most L connections,
\* and an add_connection for an IPv4 address whose /24 prefix already holds L
\* connections returns an error.
C1_Subnet24Cap ==
    [][ /\ \A p \in DOMAIN subnet24'.connections :
              subnet24'.connections[p] <= subnet24'.max_per_subnet
        /\ \A ip \in Ipv4Addrs :
              ( /\ Add24(ip)
                /\ SubnetTracker_connection_count(subnet24, ip) >= subnet24.max_per_subnet )
              => ~result'.ok
      ]_vars

\* The default tracker holds 5 connections of one /24 and has just rejected the 6th.
C1_Witness ==
    /\ subnet24.max_per_subnet = MAX_PEERS_PER_SUBNET_24
    /\ result.op = "add24"
    /\ ~result.ok
    /\ SubnetTracker_connection_count(subnet24, result.ip) = 5

\* C2: in every state reached by add_connection / remove_connection calls on a
\* Subnet16Tracker with limit M, every /16 prefix counts at most M connections,
\* and an add_connection for an IPv4 address whose /16 prefix already holds M
\* connections returns an error.
C2_Subnet16Cap ==
    [][ /\ \A p \in DOMAIN subnet16'.connections :
              subnet16'.connections[p] <= subnet16'.max_per_subnet
        /\ \A ip \in Ipv4Addrs :
              ( /\ Add16(ip)
                /\ Subnet16Tracker_connection_count(subnet16, ip) >= subnet16.max_per_subnet )
              => ~result'.ok
      ]_vars

\* The default tracker holds 3 connections of one /16 and has just rejected the 4th.
C2_Witness ==
    /\ subnet16.max_per_subnet = MAX_PEERS_PER_SUBNET_16
    /\ result.op = "add16"
    /\ ~result.ok
    /\ Subnet16Tracker_connection_count(subnet16, result.ip) = 3

-----------------------------------------------------------------------------
(* SpecTotal: one ConnectionTracker built by new(k), under any sequence of *)
(* can_accept_connection / add_connection / remove_connection calls.       *)

InitTotal ==
    /\ subnet24 = IdleSubnet24
    /\ subnet16 = IdleSubnet16
    /\ limiter = IdleLimiter
    /\ global = IdleGlobal
    /\ tracker \in {ConnectionTracker_new(k) : k \in 0..MaxConn}
    /\ now = 0
    /\ result = NoCall
    /\ admitted = <<>>
    /\ pc = <<>>
    /\ probe = IdleProbe

CanAcceptTotal ==
    /\ result' = Call("can_accept_total", V6(0), ConnectionTracker_can_accept_connection(tracker),
                      ConnectionTracker_current_count(tracker))
    /\ UNCHANGED <<subnet24, subnet16, limiter, global, tracker, now, admitted, pc, probe>>

AddTotal(ip) ==
    LET r == ConnectionTracker_add_connection(tracker, ip) IN
    /\ tracker' = r.self
    /\ result' = Call("add_total", ip, r.ok, ConnectionTracker_current_count(tracker))
    /\ UNCHANGED <<subnet24, subnet16, limiter, global, now, admitted, pc, probe>>

RemoveTotal(ip) ==
    /\ tracker' = ConnectionTracker_remove_connection(tracker, ip)
    /\ result' = Call("remove_total", ip, TRUE, ConnectionTracker_current_count(tracker))
    /\ UNCHANGED <<subnet24, subnet16, limiter, global, now, admitted, pc, probe>>

NextTotal ==
    \/ CanAcceptTotal
    \/ \E ip \in IpAddrs :
        \/ AddTotal(ip)
        \/ RemoveTotal(ip)

SpecTotal == InitTotal /\ [][NextTotal]_vars

\* C3: current_count() of a ConnectionTracker created with max_connections = K
\* never exceeds K, and add_connection for an IP that is not tracked while K
\* IPs are tracked (the (K+1)-th distinct IP) returns an error.
C3_TotalCap ==
    [][ /\ ConnectionTracker_current_count(tracker') <= tracker'.max_connections
        /\ \A ip \in IpAddrs :
              ( /\ AddTotal(ip)
                /\ ip \notin tracker.connections
                /\ ConnectionTracker_current_count(tracker) = tracker.max_connections )
              => ~result'.ok
      ]_vars

\* A tracker with K = MaxConn tracks K IPs and has just rejected another IP.
C3_Witness ==
    /\ tracker.max_connections = MaxConn
    /\ ConnectionTracker_current_count(tracker) = MaxConn
    /\ result.op = "add_total"
    /\ ~result.ok
    /\ result.ip \notin tracker.connections

-----------------------------------------------------------------------------
(* SpecGlobal: one GlobalConnectionRateLimiter built by with_window(m, w),  *)
(* called at the non-decreasing instants of a clock that advances between   *)
(* calls.  admitted records the instant of every call that returned true.   *)

InitGlobal ==
    /\ subnet24 = IdleSubnet24
    /\ subnet16 = IdleSubnet16
    /\ limiter = IdleLimiter
    /\ global \in {GlobalConnectionRateLimiter_with_window(m, w) :
                      m \in 0..MaxPerWindow, w \in 0..MaxWindow}
    /\ tracker = IdleTracker
    /\ now = 0
    /\ result = NoCall
    /\ admitted = <<>>
    /\ pc = <<>>
    /\ probe = IdleProbe

\* The clock advances by one tick.
Tick ==
    /\ now < MaxTime
    /\ now' = now + 1
    /\ result' = NoCall
    /\ UNCHANGED <<subnet24, subnet16, limiter, global, tracker, admitted, pc, probe>>

RecordNewConnection ==
    LET r == GlobalConnectionRateLimiter_record_new_connection(global, now) IN
    /\ Len(admitted) < MaxAdmitted
    /\ global' = r.self
    /\ result' = Call("record_new_connection", V6(0), r.ok, Len(global.connection_times))
    /\ admitted' = IF r.ok THEN Append(admitted, now) ELSE admitted
    /\ UNCHANGED <<subnet24, subnet16, limiter, tracker, now, pc, probe>>

CanAcceptNewConnection ==
    /\ result' = Call("can_accept_new_connection", V6(0),
                      GlobalConnectionRateLimiter_can_accept_new_connection(global, now),
                      Len(global.connection_times))
    /\ UNCHANGED <<subnet24, subnet16, limiter, global, tracker, now, admitted, pc, probe>>

NextGlobal ==
    \/ Tick
    \/ RecordNewConnection
    \/ CanAcceptNewConnection

SpecGlobal == InitGlobal /\ [][NextGlobal]_vars

\* The number of admissions of the history whose instant lies in (t - w, t].
AdmittedInSpan(history, t, w) ==
    Cardinality({i \in 1..Len(history) : history[i] > t - w /\ history[i] <= t})

\* C4: with cap M and window W, at most M of the calls that returned true have
\* their admission instant inside any half-open span (t - W, t], and once M
\* admissions lie inside such a span a further record_new_connection made
\* inside it returns false.
C4_SlidingWindowCap ==
    [][ /\ \A t \in 0..MaxTime :
              AdmittedInSpan(admitted', t, global'.window_duration) <= global'.max_per_window
        /\ \A t \in 0..(MaxTime + MaxWindow) :
              ( /\ RecordNewConnection
                /\ now > t - global.window_duration
                /\ now <= t
                /\ AdmittedInSpan(admitted, t, global.window_duration) >= global.max_per_window )
              => ~result'.ok
      ]_vars

\* Three admissions made at different instants fill a window of cap 3, and a
\* fourth call inside the same span has just been rejected.
C4_Witness ==
    /\ global.max_per_window = 3
    /\ result.op = "record_new_connection"
    /\ ~result.ok
    /\ Len(global.connection_times) = 3
    /\ global.connection_times[1] < global.connection_times[3]
    /\ global.connection_times[3] < now

-----------------------------------------------------------------------------
(* SpecDelay: calculate_delay as a function of the limiter's configuration *)
(* and of the failure count.                                               *)

InitDelay ==
    /\ subnet24 = IdleSubnet24
    /\ subnet16 = IdleSubnet16
    /\ limiter \in {ConnectionRateLimiter_with_config(b, d, MaxProbe + 1) :
                       b \in 0..MaxBaseDelay, d \in 0..MaxDelay}
    /\ global = IdleGlobal
    /\ tracker = IdleTracker
    /\ now = 0
    /\ result = NoCall
    /\ admitted = <<>>
    /\ pc = <<>>
    /\ probe = IdleProbe

CalculateDelay(failures) ==
    /\ probe' = [failures |-> failures,
                 delay |-> ConnectionRateLimiter_calculate_delay(limiter, failures)]
    /\ UNCHANGED <<subnet24, subnet16, limiter, global, tracker, now, result, admitted, pc>>

NextDelay == \E failures \in 0..MaxProbe : CalculateDelay(failures)

SpecDelay == InitDelay /\ [][NextDelay]_vars

-----------------------------------------------------------------------------
(* SpecLimiter: one ConnectionRateLimiter built by with_config, under any   *)
(* sequence of calls for one IP while the clock advances.  max_failures is  *)
(* small (0..MaxFailures) or DeepMaxFailures.                               *)

LimiterIps == {V4(10, 0, 0, 1)}

InitLimiter ==
    /\ subnet24 = IdleSubnet24
    /\ subnet16 = IdleSubnet16
    /\ limiter \in {ConnectionRateLimiter_with_config(b, d, f) :
                       b \in 0..MaxBaseDelay, d \in 0..MaxDelay,
                       f \in (0..MaxFailures) \cup {DeepMaxFailures}}
    /\ global = IdleGlobal
    /\ tracker = IdleTracker
    /\ now = 0
    /\ result = NoCall
    /\ admitted = <<>>
    /\ pc = <<>>
    /\ probe = IdleProbe

CanAttempt(ip) ==
    /\ result' = Call("can_attempt", ip, ConnectionRateLimiter_can_attempt(limiter, ip, now),
                      ConnectionRateLimiter_failure_count(limiter, ip))
    /\ UNCHANGED <<subnet24, subnet16, limiter, global, tracker, now, admitted, pc, probe>>

RecordAttempt(ip) ==
    /\ limiter' = ConnectionRateLimiter_record_attempt(limiter, ip, now)
    /\ result' = Call("record_attempt", ip, TRUE, ConnectionRateLimiter_failure_count(limiter, ip))
    /\ UNCHANGED <<subnet24, subnet16, global, tracker, now, admitted, pc, probe>>

\* The failure count stays within the model's bound max_failures + 1.
RecordFailure(ip) ==
    /\ ConnectionRateLimiter_failure_count(limiter, ip) <= limiter.max_failures
    /\ limiter' = ConnectionRateLimiter_record_failure(limiter, ip, now)
    /\ result' = Call("record_failure", ip, TRUE, ConnectionRateLimiter_failure_count(limiter, ip))
    /\ UNCHANGED <<subnet24, subnet16, global, tracker, now, admitted, pc, probe>>

RecordSuccess(ip) ==
    /\ limiter' = ConnectionRateLimiter_record_success(limiter, ip)
    /\ result' = Call("record_success", ip, TRUE, ConnectionRateLimiter_failure_count(limiter, ip))
    /\ UNCHANGED <<subnet24, subnet16, global, tracker, now, admitted, pc, probe>>

Cleanup(max_age) ==
    /\ limiter' = ConnectionRateLimiter_cleanup(limiter, max_age, now)
    /\ result' = Call("cleanup", V6(0), TRUE, Cardinality(DOMAIN limiter.attempts))
    /\ UNCHANGED <<subnet24, subnet16, global, tracker, now, admitted, pc, probe>>

TimeUntilAllowed(ip) ==
    /\ result' = Call("time_until_allowed", ip, TRUE,
                      ConnectionRateLimiter_time_until_allowed(limiter, ip, now))
    /\ UNCHANGED <<subnet24, subnet16, limiter, global, tracker, now, admitted, pc, probe>>

NextLimiter ==
    \/ Tick
    \/ \E ip \in LimiterIps :
        \/ CanAttempt(ip)
        \/ RecordAttempt(ip)
        \/ RecordFailure(ip)
        \/ RecordSuccess(ip)
        \/ TimeUntilAllowed(ip)
    \/ \E max_age \in 0..MaxAge : Cleanup(max_age)

SpecLimiter == InitLimiter /\ [][NextLimiter]_vars

\* The delay formula of the backoff: delay(0) = 0 and, for n >= 1,
\* delay(n) = min(base_delay * 2^(n-1), max_delay).  min(cur * 2^k, ceiling)
\* is computed by doubling cur until the ceiling is reached.
RECURSIVE DoubledUnderCeiling(_, _, _)
DoubledUnderCeiling(cur, ceiling, k) ==
    IF k = 0 \/ cur = 0 \/ cur >= ceiling THEN Min(cur, ceiling)
    ELSE DoubledUnderCeiling(2 * cur, ceiling, k - 1)

BackoffDelay(base, ceiling, n) ==
    IF n = 0 THEN 0 ELSE DoubledUnderCeiling(base, ceiling, n - 1)

\* C5: can_attempt(ip) is true exactly when ip has no record, or its failure
\* count n is below max_failures and the time elapsed since its last recorded
\* attempt is at least delay(n) = min(base_delay * 2^(n-1), max_delay).
C5_CanAttemptIff ==
    \A ip \in LimiterIps :
        ConnectionRateLimiter_can_attempt(limiter, ip, now)
        <=> \/ ip \notin DOMAIN limiter.attempts
            \/ /\ limiter.attempts[ip][2] < limiter.max_failures
               /\ now - limiter.attempts[ip][1]
                    >= BackoffDelay(limiter.base_delay, limiter.max_delay,
                                    limiter.attempts[ip][2])

\* C6: calculate_delay(n) = min(base_delay * 2^(n-1), max_delay) for every
\* n >= 1, and 0 for n = 0, for every failure count (also above 32).
C6_DelayFormula ==
    probe.delay = BackoffDelay(limiter.base_delay, limiter.max_delay, probe.failures)

Blocked(lim, ip) ==
    /\ ip \in DOMAIN lim.attempts
    /\ ConnectionRateLimiter_failure_count(lim, ip) >= lim.max_failures

\* C7: once the failure count of ip has reached max_failures, every later call
\* or tick that leaves ip's record in place leaves the count at or above
\* max_failures and can_attempt(ip) false.
C7_BlockedForever ==
    [][ \A ip \in LimiterIps :
          ( Blocked(limiter, ip) /\ ip \in DOMAIN limiter'.attempts )
          => /\ Blocked(limiter', ip)
             /\ ~ConnectionRateLimiter_can_attempt(limiter', ip, now')
      ]_vars

\* An IP with max_failures >= 2 failures on record is refused by can_attempt
\* although more than max_delay has elapsed since its last failure.
C7_Witness ==
    /\ limiter.max_failures >= 2
    /\ limiter.base_delay >= 1
    /\ result.op = "can_attempt"
    /\ ~result.ok
    /\ Blocked(limiter, result.ip)
    /\ now - limiter.attempts[result.ip][1] > limiter.max_delay

\* C8: record_success(ip) removes ip's record: right after the call
\* failure_count(ip) = 0 and can_attempt(ip) is true.
C8_SuccessResets ==
    [][ \A ip \in LimiterIps :
          RecordSuccess(ip)
          => /\ ConnectionRateLimiter_failure_count(limiter', ip) = 0
             /\ ConnectionRateLimiter_can_attempt(limiter', ip, now')
      ]_vars

\* record_success has just been called for an IP that was permanently blocked.
C8_Witness ==
    /\ result.op = "record_success"
    /\ limiter.max_failures >= 1
    /\ result.prev >= limiter.max_failures
    /\ result.ip \notin DOMAIN limiter.attempts

\* record_success has just been called for an IP that was in backoff.
C8_WitnessBackoff ==
    /\ result.op = "record_success"
    /\ result.prev >= 1
    /\ result.prev < limiter.max_failures
    /\ result.ip \notin DOMAIN limiter.attempts

-----------------------------------------------------------------------------
(* SpecConcurrent: NumCallers callers share one SubnetTracker and one       *)
(* ConnectionTracker behind the owner's lock.  Every tracker call is one    *)
(* atomic step; a caller's pre-flight (can_accept_connection on both        *)
(* trackers), its add_connection calls and its remove_connection calls are  *)
(* separate steps that interleave freely with the other callers' steps.     *)
(* pc[c] is the position of caller c and the IP of its connection.          *)

CallerIp == <<V4(10, 0, 0, 1), V4(10, 0, 0, 2), V4(10, 0, 1, 1), V4(11, 0, 0, 1)>>
Callers == 1..NumCallers

At(c, where) == pc[c].at = where
Goto(c, where) == pc' = [pc EXCEPT ![c].at = where]

InitConcurrent ==
    /\ subnet24 \in {SubnetTracker_with_limit(l) : l \in 0..MaxLimit}
    /\ subnet16 = IdleSubnet16
    /\ limiter = IdleLimiter
    /\ global = IdleGlobal
    /\ tracker \in {ConnectionTracker_new(k) : k \in 0..MaxConn}
    /\ now = 0
    /\ result = NoCall
    /\ admitted = <<>>
    /\ pc = [c \in Callers |-> [at |-> "idle", ip |-> CallerIp[c]]]
    /\ probe = IdleProbe

\* Pre-flight, first call: SubnetTracker::can_accept_connection.
Preflight24(c) ==
    LET ok == SubnetTracker_can_accept_connection(subnet24, pc[c].ip) IN
    /\ At(c, "idle")
    /\ Goto(c, IF ok THEN "checked24" ELSE "idle")
    /\ result' = Call("can_accept24", pc[c].ip, ok,
                      SubnetTracker_connection_count(subnet24, pc[c].ip))
    /\ UNCHANGED <<subnet24, subnet16, limiter, global, tracker, now, admitted, probe>>

\* Pre-flight, second call: ConnectionTracker::can_accept_connection.
PreflightTotal(c) ==
    LET ok == ConnectionTracker_can_accept_connection(tracker) IN
    /\ At(c, "checked24")
    /\ Goto(c, IF ok THEN "observed" ELSE "idle")
    /\ result' = Call("can_accept_total", pc[c].ip, ok, ConnectionTracker_current_count(tracker))
    /\ UNCHANGED <<subnet24, subnet16, limiter, global, tracker, now, admitted, probe>>

\* The caller observed capacity on both trackers and now adds to the first.
CallerAdd24(c) ==
    LET r == SubnetTracker_add_connection(subnet24, pc[c].ip) IN
    /\ At(c, "observed")
    /\ subnet24' = r.self
    /\ Goto(c, IF r.ok THEN "added24" ELSE "idle")
    /\ result' = Call("add24", pc[c].ip, r.ok,
                      SubnetTracker_connection_count(subnet24, pc[c].ip))
    /\ UNCHANGED <<subnet16, limiter, global, tracker, now, admitted, probe>>

\* It adds to the second; a rejection drops the attempt.
CallerAddTotal(c) ==
    LET r == ConnectionTracker_add_connection(tracker, pc[c].ip) IN
    /\ At(c, "added24")
    /\ tracker' = r.self
    /\ Goto(c, IF r.ok THEN "connected" ELSE "idle")
    /\ result' = Call("add_total", pc[c].ip, r.ok, ConnectionTracker_current_count(tracker))
    /\ UNCHANGED <<subnet24, subnet16, limiter, global, now, admitted, probe>>

\* Disconnect: the caller removes its IP from both trackers.
CallerRemove24(c) ==
    /\ At(c, "connected")
    /\ subnet24' = SubnetTracker_remove_connection(subnet24, pc[c].ip)
    /\ Goto(c, "removed24")
    /\ result' = Call("remove24", pc[c].ip, TRUE,
                      SubnetTracker_connection_count(subnet24, pc[c].ip))
    /\ UNCHANGED <<subnet16, limiter, global, tracker, now, admitted, probe>>

CallerRemoveTotal(c) ==
    /\ At(c, "removed24")
    /\ tracker' = ConnectionTracker_remove_connection(tracker, pc[c].ip)
    /\ Goto(c, "idle")
    /\ result' = Call("remove_total", pc[c].ip, TRUE, ConnectionTracker_current_count(tracker))
    /\ UNCHANGED <<subnet24, subnet16, limiter, global, now, admitted, probe>>

NextConcurrent ==
    \E c \in Callers :
        \/ Preflight24(c)
        \/ PreflightTotal(c)
        \/ CallerAdd24(c)
        \/ CallerAddTotal(c)
        \/ CallerRemove24(c)
        \/ CallerRemoveTotal(c)

SpecConcurrent == InitConcurrent /\ [][NextConcurrent]_vars

\* The callers whose add_connection on the SubnetTracker succeeded for an IP of
\* the /24 prefix p and that have not removed it since.
Holders24(p) ==
    {c \in Callers : /\ pc[c].at \in {"added24", "connected"}
                     /\ extract_subnet_24(pc[c].ip) = Some(p)}

\* The callers whose add_connection on the ConnectionTracker succeeded and that
\* have not removed their IP since.
HoldersTotal == {c \in Callers : pc[c].at \in {"connected", "removed24"}}

\* C9: under every interleaving of the callers' atomic can_accept / add /
\* remove steps, no /24 prefix count exceeds max_per_subnet and the tracked
\* set never exceeds max_connections; the callers whose add succeeded never
\* outnumber the cap, however many of them observed capacity beforehand.
C9_NoOvershoot ==
    /\ \A p \in DOMAIN subnet24.connections :
          subnet24.connections[p] <= subnet24.max_per_subnet
    /\ \A c \in Callers :
          Cardinality(Holders24(extract_subnet_24(pc[c].ip)[1])) <= subnet24.max_per_subnet
    /\ ConnectionTracker_current_count(tracker) <= tracker.max_connections
    /\ Cardinality(HoldersTotal) <= tracker.max_connections

\* Callers 1 and 2 (same /24) both observed capacity while one slot was left;
\* caller 1's add succeeded and caller 2's add has just been rejected.
C9_Witness ==
    /\ subnet24.max_per_subnet = 1
    /\ pc[1].at \in {"added24", "connected"}
    /\ pc[2].at = "idle"
    /\ result = Call("add24", CallerIp[2], FALSE, 1)

-----------------------------------------------------------------------------
(* SpecPipeline: the admission pipeline of the caller (the network manager) *)
(* over the five trackers.  An attempt passes, in order, the global rate    *)
(* limiter, the per-IP rate limiter, the /24 tracker, the /16 tracker and   *)
(* the total tracker, each through its mutating operation; the first        *)
(* rejection ends the attempt.  On disconnect the caller removes the IP     *)
(* from the two subnet trackers and the total tracker.  pc[c] is the        *)
(* connection slot c: idle, or connected with the IP it was admitted for.   *)

\* Two addresses of one /16 and of different /24s.
PipelineIps == {V4(10, 0, 0, 1), V4(10, 0, 1, 1)}
Slots == 1..NumSlots

\* One attempt for ip at the instant `at`: the trackers after the attempt, and
\* the number of the stage that rejected it (0 when all five admitted).
AdmissionPipeline(g, l, s24, s16, t, ip, at) ==
    LET r1 == GlobalConnectionRateLimiter_record_new_connection(g, at)
        ok2 == ConnectionRateLimiter_can_attempt(l, ip, at)
        l2 == ConnectionRateLimiter_record_attempt(l, ip, at)
        r3 == SubnetTracker_add_connection(s24, ip)
        r4 == Subnet16Tracker_add_connection(s16, ip)
        r5 == ConnectionTracker_add_connection(t, ip)
        out(stage, g1, l1, a, b, c) ==
            [stage |-> stage, global |-> g1, limiter |-> l1,
             subnet24 |-> a, subnet16 |-> b, tracker |-> c]
    IN IF ~r1.ok THEN out(1, r1.self, l, s24, s16, t)
       ELSE IF ~ok2 THEN out(2, r1.self, l, s24, s16, t)
       ELSE IF ~r3.ok THEN out(3, r1.self, l2, r3.self, s16, t)
       ELSE IF ~r4.ok THEN out(4, r1.self, l2, r3.self, r4.self, t)
       ELSE IF ~r5.ok THEN out(5, r1.self, l2, r3.self, r4.self, r5.self)
       ELSE out(0, r1.self, l2, r3.self, r4.self, r5.self)

\* The two rate limiters get their tightest configuration that still admits
\* (one admission per tick; one failure blocks the IP), so that either of them
\* rejects within a few steps.
InitPipeline ==
    /\ subnet24 \in {SubnetTracker_with_limit(l) : l \in 1..MaxLimit}
    /\ subnet16 \in {Subnet16Tracker_with_limit(l) : l \in 1..MaxLimit}
    /\ limiter = ConnectionRateLimiter_with_config(1, 1, 1)
    /\ global = GlobalConnectionRateLimiter_with_window(1, 1)
    /\ tracker \in {ConnectionTracker_new(k) : k \in 0..MaxConn}
    /\ now = 0
    /\ result = NoCall
    /\ admitted = <<>>
    /\ pc = [c \in Slots |-> [at |-> "idle", ip |-> V6(0)]]
    /\ probe = IdleProbe

\* A connection attempt for ip; result.prev is the rejecting stage.
Admit(c, ip) ==
    LET r == AdmissionPipeline(global, limiter, subnet24, subnet16, tracker, ip, now) IN
    /\ At(c, "idle")
    /\ global' = r.global
    /\ limiter' = r.limiter
    /\ subnet24' = r.subnet24
    /\ subnet16' = r.subnet16
    /\ tracker' = r.tracker
    /\ pc' = IF r.stage = 0 THEN [pc EXCEPT ![c] = [at |-> "connected", ip |-> ip]] ELSE pc
    /\ result' = Call("admit", ip, r.stage = 0, r.stage)
    /\ UNCHANGED <<now, admitted, probe>>

\* The connection of slot c ends.
Disconnect(c) ==
    /\ At(c, "connected")
    /\ subnet24' = SubnetTracker_remove_connection(subnet24, pc[c].ip)
    /\ subnet16' = Subnet16Tracker_remove_connection(subnet16, pc[c].ip)
    /\ tracker' = ConnectionTracker_remove_connection(tracker, pc[c].ip)
    /\ pc' = [pc EXCEPT ![c] = [at |-> "idle", ip |-> V6(0)]]
    /\ result' = Call("disconnect", pc[c].ip, TRUE, 0)
    /\ UNCHANGED <<limiter, global, now, admitted, probe>>

\* The clock advances by one tick.
TickPipeline ==
    /\ now < PipelineMaxTime
    /\ now' = now + 1
    /\ result' = NoCall
    /\ UNCHANGED <<subnet24, subnet16, limiter, global, tracker, admitted, pc, probe>>

\* The handshake with ip failed: the caller reports the failure to the per-IP
\* limiter (the count stays within the model's bound max_failures).
ReportFailure(ip) ==
    /\ ConnectionRateLimiter_failure_count(limiter, ip) < limiter.max_failures
    /\ limiter' = ConnectionRateLimiter_record_failure(limiter, ip, now)
    /\ result' = Call("record_failure", ip, TRUE, ConnectionRateLimiter_failure_count(limiter, ip))
    /\ UNCHANGED <<subnet24, subnet16, global, tracker, now, admitted, pc, probe>>

NextPipeline ==
    \/ TickPipeline
    \/ \E c \in Slots, ip \in PipelineIps : Admit(c, ip)
    \/ \E c \in Slots : Disconnect(c)
    \/ \E ip \in PipelineIps : ReportFailure(ip)

SpecPipeline == InitPipeline /\ [][NextPipeline]_vars

\* C10: when a stage of the pipeline rejects an attempt, the /24 counts, the
\* /16 counts and the tracked set are what they were before the attempt.
C10_NoPartialEffect ==
    [][ \A c \in Slots, ip \in PipelineIps :
          ( Admit(c, ip) /\ ~result'.ok )
          => /\ \A q \in IpAddrs :
                   /\ SubnetTracker_connection_count(subnet24', q)
                        = SubnetTracker_connection_count(subnet24, q)
                   /\ Subnet16Tracker_connection_count(subnet16', q)
                        = Subnet16Tracker_connection_count(subnet16, q)
             /\ tracker'.connections = tracker.connections
      ]_vars

-----------------------------------------------------------------------------
(* SpecSubnets: one SubnetTracker and one Subnet16Tracker side by side,     *)
(* each built by with_limit, under any sequence of can_accept_connection /  *)
(* add_connection / remove_connection calls on either of them.              *)

\* The IPv4 addresses above and two IPv6 addresses.
SubnetIps == Ipv4Addrs \cup {V6(1), V6(2)}

InitSubnets ==
    /\ subnet24 \in {SubnetTracker_with_limit(l) : l \in 0..MaxLimit}
    /\ subnet16 \in {Subnet16Tracker_with_limit(l) : l \in 0..MaxLimit}
    /\ limiter = IdleLimiter
    /\ global = IdleGlobal
    /\ tracker = IdleTracker
    /\ now = 0
    /\ result = NoCall
    /\ admitted = <<>>
    /\ pc = <<>>
    /\ probe = IdleProbe

NextSubnets ==
    \E ip \in SubnetIps :
        \/ CanAccept24(ip)
        \/ Add24(ip)
        \/ Remove24(ip)
        \/ CanAccept16(ip)
        \/ Add16(ip)
        \/ Remove16(ip)

SpecSubnets == InitSubnets /\ [][NextSubnets]_vars

\* C11: when add_connection on either subnet tracker returns an error, the
\* tracker (its prefix entries and their counts) is identical to what it was
\* before the call, for every configured limit including 0.
C11_ErrorLeavesState ==
    [][ \A ip \in SubnetIps :
          /\ (Add24(ip) /\ ~result'.ok) => subnet24' = subnet24
          /\ (Add16(ip) /\ ~result'.ok) => subnet16' = subnet16
      ]_vars

\* C12: remove_connection(ip) on a subnet tracker whose prefix for ip counts
\* c >= 1 leaves that prefix at exactly c - 1, and if the prefix was at its
\* limit, add_connection for any address of that prefix succeeds right after.
C12_RemoveFreesOneSlot ==
    [][ \A ip \in Ipv4Addrs :
          /\ ( /\ result'.op = "remove24"
               /\ result'.ip = ip
               /\ Remove24(ip)
               /\ SubnetTracker_connection_count(subnet24, ip) >= 1 )
             => /\ SubnetTracker_connection_count(subnet24', ip)
                     = SubnetTracker_connection_count(subnet24, ip) - 1
                /\ SubnetTracker_connection_count(subnet24, ip) = subnet24.max_per_subnet
                     => \A other \in Ipv4Addrs :
                           extract_subnet_24(other) = extract_subnet_24(ip)
                             => SubnetTracker_add_connection(subnet24', other).ok
          /\ ( /\ result'.op = "remove16"
               /\ result'.ip = ip
               /\ Remove16(ip)
               /\ Subnet16Tracker_connection_count(subnet16, ip) >= 1 )
             => /\ Subnet16Tracker_connection_count(subnet16', ip)
                     = Subnet16Tracker_connection_count(subnet16, ip) - 1
                /\ Subnet16Tracker_connection_count(subnet16, ip) = subnet16.max_per_subnet
                     => \A other \in Ipv4Addrs :
                           extract_subnet_16(other) = extract_subnet_16(ip)
                             => Subnet16Tracker_add_connection(subnet16', other).ok
      ]_vars

\* A /24 prefix that was full with MaxLimit connections has just lost one.
C12_Witness ==
    /\ result.op = "remove24"
    /\ subnet24.max_per_subnet = MaxLimit
    /\ result.prev = MaxLimit
    /\ SubnetTracker_connection_count(subnet24, result.ip) = MaxLimit - 1

\* C13: in every reachable state of either subnet tracker, every prefix that
\* is present in the map counts at least 1: no zero-count entry remains
\* after any add_connection or remove_connection call, successful or failed.
C13_NoZeroEntry ==
    /\ \A p \in DOMAIN subnet24.connections : subnet24.connections[p] >= 1
    /\ \A p \in DOMAIN subnet16.connections : subnet16.connections[p] >= 1

\* C14: for every IPv6 address and every reachable state, can_accept_connection
\* returns true and add_connection returns Ok on both subnet trackers, however
\* many IPv6 addresses were added before; these calls leave all prefix counts
\* and total_connections() unchanged, and connection_count of an IPv6 address
\* is 0.
C14_Ipv6Exempt ==
    [][ \A ip \in SubnetIps : ip.v = 6 =>
          /\ SubnetTracker_connection_count(subnet24', ip) = 0
          /\ Subnet16Tracker_connection_count(subnet16', ip) = 0
          /\ (result'.op = "can_accept24" /\ result'.ip = ip /\ CanAccept24(ip))
                => result'.ok
          /\ (result'.op = "can_accept16" /\ result'.ip = ip /\ CanAccept16(ip))
                => result'.ok
          /\ (result'.op = "add24" /\ result'.ip = ip /\ Add24(ip))
                => /\ result'.ok
                   /\ subnet24'.connections = subnet24.connections
                   /\ SubnetTracker_total_connections(subnet24')
                        = SubnetTracker_total_connections(subnet24)
          /\ (result'.op = "add16" /\ result'.ip = ip /\ Add16(ip))
                => /\ result'.ok
                   /\ subnet16'.connections = subnet16.connections
                   /\ Subnet16Tracker_total_connections(subnet16')
                        = Subnet16Tracker_total_connections(subnet16)
      ]_vars

\* An IPv6 address has just been added to a /16 tracker that holds MaxLimit
\* connections of one IPv4 prefix and nothing else.
C14_Witness ==
    /\ result.op = "add16"
    /\ result.ip.v = 6
    /\ result.ok
    /\ subnet16.max_per_subnet = MaxLimit
    /\ Subnet16Tracker_total_connections(subnet16) = MaxLimit
    /\ \E p \in DOMAIN subnet16.connections : subnet16.connections[p] = MaxLimit

\* The entries of every prefix other than the one of ip are the same in the
\* maps before and after.
OtherPrefixesUnchanged(before, after, own) ==
    \A p \in (DOMAIN before) \cup (DOMAIN after) :
        Some(p) # own => /\ p \in DOMAIN before
                         /\ p \in DOMAIN after
                         /\ before[p] = after[p]

\* C15: add_connection(ip) and remove_connection(ip) on a subnet tracker
\* change at most the count of ip's own prefix, the counts of all other
\* prefixes are unchanged; so an address whose own prefix is below the limit
\* is never rejected by can_accept_connection or add_connection, however full
\* the other prefixes are.
C15_OtherPrefixesUnaffected ==
    [][ \A ip \in SubnetIps :
          /\ ( /\ result'.op \in {"add24", "remove24"}
               /\ result'.ip = ip
               /\ (Add24(ip) \/ Remove24(ip)) )
             => OtherPrefixesUnchanged(subnet24.connections, subnet24'.connections,
                                       extract_subnet_24(ip))
          /\ ( /\ result'.op \in {"add16", "remove16"}
               /\ result'.ip = ip
               /\ (Add16(ip) \/ Remove16(ip)) )
             => OtherPrefixesUnchanged(subnet16.connections, subnet16'.connections,
                                       extract_subnet_16(ip))
          /\ ( /\ result'.op \in {"can_accept24", "add24"}
               /\ result'.ip = ip
               /\ (CanAccept24(ip) \/ Add24(ip))
               /\ SubnetTracker_connection_count(subnet24, ip) < subnet24.max_per_subnet )
             => result'.ok
          /\ ( /\ result'.op \in {"can_accept16", "add16"}
               /\ result'.ip = ip
               /\ (CanAccept16(ip) \/ Add16(ip))
               /\ Subnet16Tracker_connection_count(subnet16, ip) < subnet16.max_per_subnet )
             => result'.ok
      ]_vars

\* One /24 prefix is full with MaxLimit connections and an address of another
\* /24 prefix has just been added.
C15_Witness ==
    /\ result.op = "add24"
    /\ result.ok
    /\ result.ip.v = 4
    /\ subnet24.max_per_subnet = MaxLimit
    /\ \E p \in DOMAIN subnet24.connections :
          /\ Some(p) # extract_subnet_24(result.ip)
          /\ subnet24.connections[p] = MaxLimit

\* C16: can_accept_connection on either subnet tracker, called any number of
\* times in any state, leaves the entry map and all prefix counts unchanged;
\* a step that changes a subnet tracker is an add_connection or a
\* remove_connection on that tracker.
C16_CanAcceptPure ==
    [][ /\ \A ip \in SubnetIps :
             /\ (result'.op = "can_accept24" /\ result'.ip = ip /\ CanAccept24(ip))
                   => subnet24' = subnet24
             /\ (result'.op = "can_accept16" /\ result'.ip = ip /\ CanAccept16(ip))
                   => subnet16' = subnet16
        /\ subnet24' # subnet24 => result'.op \in {"add24", "remove24"}
        /\ subnet16' # subnet16 => result'.op \in {"add16", "remove16"}
      ]_vars

\* can_accept_connection has just answered for an IPv4 address whose /24
\* prefix has no entry, in a tracker that holds other prefixes.
C16_Witness ==
    /\ result.op = "can_accept24"
    /\ result.ip.v = 4
    /\ result.ok
    /\ extract_subnet_24(result.ip)[1] \notin DOMAIN subnet24.connections
    /\ DOMAIN subnet24.connections # {}

-----------------------------------------------------------------------------
(* Claims on the ConnectionTracker, under SpecTotal.                        *)

\* C17: ConnectionTracker.add_connection(ip) for an ip that is already tracked
\* returns Ok and leaves the set and current_count() unchanged, even when the
\* set is at max_connections; applying add_connection(ip) twice has the same
\* effect as applying it once.
C17_AddIdempotent ==
    [][ \A ip \in IpAddrs :
          /\ ( /\ result'.op = "add_total"
               /\ result'.ip = ip
               /\ AddTotal(ip)
               /\ ip \in tracker.connections )
             => /\ result'.ok
                /\ tracker'.connections = tracker.connections
                /\ ConnectionTracker_current_count(tracker')
                     = ConnectionTracker_current_count(tracker)
          /\ LET once == ConnectionTracker_add_connection(tracker', ip)
                 twice == ConnectionTracker_add_connection(once.self, ip)
             IN /\ twice.self = once.self
                /\ once.ok => twice.ok
      ]_vars

\* A tracker that is full with MaxConn IPs has just accepted the add of an IP
\* it already tracks.
C17_Witness ==
    /\ result.op = "add_total"
    /\ result.ok
    /\ tracker.max_connections = MaxConn
    /\ result.prev = MaxConn
    /\ ConnectionTracker_current_count(tracker) = MaxConn
    /\ result.ip \in tracker.connections

\* C18: ConnectionTracker.remove_connection(ip) for an ip that is not tracked
\* leaves the tracked set, current_count() and remaining_capacity() unchanged.
C18_RemoveUntrackedNoOp ==
    [][ \A ip \in IpAddrs :
          ( /\ result'.op = "remove_total"
            /\ result'.ip = ip
            /\ RemoveTotal(ip)
            /\ ip \notin tracker.connections )
          => /\ tracker'.connections = tracker.connections
             /\ ConnectionTracker_current_count(tracker')
                  = ConnectionTracker_current_count(tracker)
             /\ ConnectionTracker_remaining_capacity(tracker')
                  = ConnectionTracker_remaining_capacity(tracker)
      ]_vars

\* remove_connection has just been called for an IP that a tracker holding
\* other IPs does not track.
C18_Witness ==
    /\ result.op = "remove_total"
    /\ result.ip \notin tracker.connections
    /\ result.prev = ConnectionTracker_current_count(tracker)
    /\ result.prev >= 2

-----------------------------------------------------------------------------
(* Claims on the GlobalConnectionRateLimiter, under SpecGlobal.             *)

\* C19: when record_new_connection returns false, the stored sequence of
\* admission instants is exactly what it was before the call: a rejected
\* call adds, removes and reorders nothing.
C19_RejectLeavesTimes ==
    [][ ( /\ result'.op = "record_new_connection"
          /\ RecordNewConnection
          /\ ~result'.ok )
        => global'.connection_times = global.connection_times
      ]_vars

\* A call has just been rejected one tick before the oldest of the two stored
\* admissions, made at different instants, leaves the window.
C19_Witness ==
    /\ result.op = "record_new_connection"
    /\ ~result.ok
    /\ global.max_per_window = 2
    /\ Len(global.connection_times) = 2
    /\ global.connection_times[1] < global.connection_times[2]
    /\ now - global.connection_times[1] = global.window_duration - 1

\* C20: the capacity of the global limiter reopens one slot per expired
\* admission.  With cap M, a record_new_connection made at an instant succeeds
\* exactly when fewer than M of all the admissions made so far are still
\* inside the window at that instant, and after every call the number of
\* further calls that can succeed at that instant (remaining_capacity) is M
\* minus the admissions still inside the window: when the limiter was full
\* and k admissions have aged out, k further calls succeed and the next fails.
C20_SlotPerExpiry ==
    [][ /\ ( /\ result'.op = "record_new_connection"
             /\ RecordNewConnection )
           => ( result'.ok <=>
                  AdmittedInSpan(admitted, now, global.window_duration)
                      < global.max_per_window )
        /\ GlobalConnectionRateLimiter_remaining_capacity(global', now')
             = global'.max_per_window
                 - AdmittedInSpan(admitted', now', global'.window_duration)
      ]_vars

\* A limiter of cap 2 was filled at two different instants; when only the
\* older admission had aged out, one further call succeeded and the next one,
\* at the same instant, has just been rejected.
C20_Witness ==
    /\ result.op = "record_new_connection"
    /\ ~result.ok
    /\ global.max_per_window = 2
    /\ Len(admitted) = 3
    /\ admitted[1] < admitted[2]
    /\ admitted[3] = now
    /\ ~(duration_since(now, admitted[1]) < global.window_duration)
    /\ duration_since(now, admitted[2]) < global.window_duration
    /\ duration_since(admitted[2], admitted[1]) < global.window_duration

\* C21: can_accept_new_connection never changes the global limiter, and at any
\* instant it returns true exactly when a record_new_connection call at that
\* same instant would return true, whether or not expired entries have been
\* pruned from the stored sequence.
C21_CanAcceptAgreesWithRecord ==
    [][ ( /\ result'.op = "can_accept_new_connection"
          /\ CanAcceptNewConnection )
        => /\ global' = global
           /\ result'.ok
                = GlobalConnectionRateLimiter_record_new_connection(global, now).ok
      ]_vars

\* can_accept_new_connection has just answered true while the stored sequence
\* is full of entries of which at least one has expired but is not pruned.
C21_Witness ==
    /\ result.op = "can_accept_new_connection"
    /\ result.ok
    /\ global.max_per_window >= 2
    /\ Len(global.connection_times) = global.max_per_window
    /\ ~(duration_since(now, global.connection_times[1]) < global.window_duration)
    /\ duration_since(now, global.connection_times[Len(global.connection_times)])
          < global.window_duration

-----------------------------------------------------------------------------
(* Bootstrap diversity validation and validate_network_config.              *)
(* A multiaddr string is the sequence of its '/'-delimited parts.  A part   *)
(* is text, a '.'-separated sequence of decimal numbers, or a well-formed   *)
(* IPv6 literal (identified by a number).                                   *)

MIN_BOOTSTRAP_PEERS == 3

\* Longest bootstrap peer list.
MaxPeers == 4

Text == [kind |-> "text", fields |-> <<>>]
Dotted(fields) == [kind |-> "dotted", fields |-> fields]
Colon(n) == [kind |-> "colon", fields |-> <<n>>]

\* part.parse::<IpAddr>(): four decimal fields of 0..255 are an IPv4 address,
\* an IPv6 literal is an IPv6 address, anything else is an error.
parse_IpAddr(part) ==
    IF /\ part.kind = "dotted"
       /\ Len(part.fields) = 4
       /\ \A i \in 1..4 : part.fields[i] <= 255
    THEN Some(V4(part.fields[1], part.fields[2], part.fields[3], part.fields[4]))
    ELSE IF part.kind = "colon"
         THEN Some(V6(part.fields[1]))
         ELSE None

RECURSIVE extract_ip_from_multiaddr(_)
\* The first part that parses as an IP address.
extract_ip_from_multiaddr(addr) ==
    IF addr = <<>> THEN None
    ELSE IF parse_IpAddr(Head(addr)) # None
         THEN parse_IpAddr(Head(addr))
         ELSE extract_ip_from_multiaddr(Tail(addr))

\* "/ip4/a.b.c.d/tcp/9000", "/ip6/<n>/tcp/9000", "/dns4/example.com/tcp/9000",
\* "/ip6/<n>/ip4/a.b.c.d/tcp/9000" and "/ip4/256.0.0.1/tcp/9000".
Ip4Peer(a, b, c, d) == <<Text, Text, Dotted(<<a, b, c, d>>), Text, Dotted(<<9000>>)>>
Ip6Peer(n) == <<Text, Text, Colon(n), Text, Dotted(<<9000>>)>>
DnsPeer == <<Text, Text, Text, Text, Dotted(<<9000>>)>>
Ip6ThenIp4Peer(n, a, b, c, d) ==
    <<Text, Text, Colon(n), Text, Dotted(<<a, b, c, d>>), Text, Dotted(<<9000>>)>>

BootstrapPeers ==
    { Ip4Peer(10, 0, 0, 1), Ip4Peer(10, 0, 1, 1), Ip4Peer(11, 0, 0, 1), Ip4Peer(12, 0, 0, 1),
      DnsPeer, Ip6Peer(1), Ip6ThenIp4Peer(1, 13, 0, 0, 1), Ip4Peer(256, 0, 0, 1) }

PeerLists == UNION {[1..n -> BootstrapPeers] : n \in 0..MaxPeers}

RECURSIVE CollectSubnets16_StopsAtUnparsed(_, _)
\* Mutant: the loop ends at the first entry without an IPv4 prefix.
CollectSubnets16_StopsAtUnparsed(peers, subnets_16) ==
    IF peers = <<>> THEN subnets_16
    ELSE LET ip == extract_ip_from_multiaddr(Head(peers))
             subnet == IF ip # None THEN extract_subnet_16(ip[1]) ELSE None
         IN IF subnet = None THEN subnets_16
            ELSE CollectSubnets16_StopsAtUnparsed(Tail(peers), subnets_16 \cup {subnet[1]})

RECURSIVE CollectSubnets16(_, _)
\* The loop over peers inserting into the HashSet subnets_16.
CollectSubnets16(peers, subnets_16) ==
    IF peers = <<>> THEN subnets_16
    ELSE LET ip == extract_ip_from_multiaddr(Head(peers))
             subnet == IF ip # None THEN extract_subnet_16(ip[1]) ELSE None
         IN CollectSubnets16(Tail(peers),
                             IF subnet # None THEN subnets_16 \cup {subnet[1]}
                                              ELSE subnets_16)

RECURSIVE CollectSubnets24(_, _)
CollectSubnets24(peers, subnets) ==
    IF peers = <<>> THEN subnets
    ELSE LET ip == extract_ip_from_multiaddr(Head(peers))
             subnet == IF ip # None THEN extract_subnet_24(ip[1]) ELSE None
         IN CollectSubnets24(Tail(peers),
                             IF subnet # None THEN subnets \cup {subnet[1]} ELSE subnets)

\* Mutant: the diversity is counted over /24 prefixes.
validate_bootstrap_peers_Slash24(peers) ==
    IF Len(peers) < MIN_BOOTSTRAP_PEERS THEN FALSE
    ELSE IF Cardinality(CollectSubnets24(peers, {})) < MIN_BOOTSTRAP_PEERS THEN FALSE
         ELSE TRUE

\* TRUE is Ok(()), FALSE is Err(Error::Config(..)).
validate_bootstrap_peers(peers) ==
    IF Len(peers) < MIN_BOOTSTRAP_PEERS THEN FALSE
    ELSE IF Cardinality(CollectSubnets16(peers, {})) < MIN_BOOTSTRAP_PEERS THEN FALSE
         ELSE TRUE

\* Error::Config(format!(..)): the message is its fixed text, told apart by
\* what it reports ("peers": the minimum count, "subnets": the /16 diversity),
\* and the two numbers formatted into it.
Ok == [kind |-> "Ok"]
Error_Config(text, required, got) ==
    [kind |-> "Config", text |-> text, required |-> required, got |-> got]

\* Mutant: the diversity is checked before the count.
validate_bootstrap_peers_Result_DiversityFirst(peers) ==
    IF Cardinality(CollectSubnets16(peers, {})) < MIN_BOOTSTRAP_PEERS
    THEN Error_Config("subnets", MIN_BOOTSTRAP_PEERS, Cardinality(CollectSubnets16(peers, {})))
    ELSE IF Len(peers) < MIN_BOOTSTRAP_PEERS
         THEN Error_Config("peers", MIN_BOOTSTRAP_PEERS, Len(peers))
         ELSE Ok

\* validate_bootstrap_peers with the value it returns.
validate_bootstrap_peers_Result(peers) ==
    IF Len(peers) < MIN_BOOTSTRAP_PEERS
    THEN Error_Config("peers", MIN_BOOTSTRAP_PEERS, Len(peers))
    ELSE IF Cardinality(CollectSubnets16(peers, {})) < MIN_BOOTSTRAP_PEERS
         THEN Error_Config("subnets", MIN_BOOTSTRAP_PEERS,
                           Cardinality(CollectSubnets16(peers, {})))
         ELSE Ok

\* The fields of NetworkConfig that validate_network_config reads.
NetworkConfig(bootstrap_peers, max_connections) ==
    [bootstrap_peers |-> bootstrap_peers, max_connections |-> max_connections]

\* Mutant: the bootstrap list is validated even when it is empty.
validate_network_config_AlwaysValidates(config) ==
    IF ~validate_bootstrap_peers(config.bootstrap_peers) THEN FALSE
    ELSE IF config.max_connections = 0 THEN FALSE
         ELSE TRUE

validate_network_config(config) ==
    IF config.bootstrap_peers # <<>> /\ ~validate_bootstrap_peers(config.bootstrap_peers)
    THEN FALSE
    ELSE IF config.max_connections = 0 THEN FALSE
         ELSE TRUE

(* SpecValidate: the validators applied to a configuration drawn at start;  *)
(* probe holds the configuration.                                           *)

InitValidate ==
    /\ subnet24 = IdleSubnet24
    /\ subnet16 = IdleSubnet16
    /\ limiter = IdleLimiter
    /\ global = IdleGlobal
    /\ tracker = IdleTracker
    /\ now = 0
    /\ result = NoCall
    /\ admitted = <<>>
    /\ pc = <<>>
    /\ probe \in {NetworkConfig(peers, k) : peers \in PeerLists, k \in {0, MaxConn}}

ValidateBootstrapPeers ==
    /\ result' = Call("validate_bootstrap_peers", V6(0),
                      validate_bootstrap_peers(probe.bootstrap_peers),
                      validate_bootstrap_peers_Result(probe.bootstrap_peers))
    /\ UNCHANGED <<subnet24, subnet16, limiter, global, tracker, now, admitted, pc, probe>>

ValidateNetworkConfig ==
    /\ result' = Call("validate_network_config", V6(0),
                      validate_network_config(probe),
                      probe.max_connections)
    /\ UNCHANGED <<subnet24, subnet16, limiter, global, tracker, now, admitted, pc, probe>>

NextValidate ==
    \/ ValidateBootstrapPeers
    \/ ValidateNetworkConfig

SpecValidate == InitValidate /\ [][NextValidate]_vars

\* The distinct /16 prefixes of the entries whose first IP literal is IPv4.
DistinctSlash16(peers) ==
    { <<ip.octets[1], ip.octets[2]>> :
        ip \in { extract_ip_from_multiaddr(peers[i])[1] :
                   i \in { j \in 1..Len(peers) :
                             /\ extract_ip_from_multiaddr(peers[j]) # None
                             /\ extract_ip_from_multiaddr(peers[j])[1].v = 4 } } }

\* C22: validate_bootstrap_peers(peers) returns Ok exactly when peers has at
\* least 3 entries and the IPv4 literals parsed from the entries span at least
\* 3 distinct /16 prefixes; entries without an IPv4 literal add nothing.
C22_BootstrapDiversity ==
    result.op = "validate_bootstrap_peers"
      => ( result.ok <=> /\ Len(probe.bootstrap_peers) >= 3
                         /\ Cardinality(DistinctSlash16(probe.bootstrap_peers)) >= 3 )

\* A list of four entries, one of them without an IPv4 literal, spanning three
\* /16 prefixes has been accepted.
C22_Witness ==
    /\ result.op = "validate_bootstrap_peers"
    /\ result.ok
    /\ Len(probe.bootstrap_peers) = 4
    /\ \E i \in 1..4 : probe.bootstrap_peers[i] = DnsPeer

\* Three entries of three different /24 prefixes but only two /16 prefixes
\* have been rejected.
C22_WitnessRejected ==
    /\ result.op = "validate_bootstrap_peers"
    /\ ~result.ok
    /\ Len(probe.bootstrap_peers) = 3
    /\ Cardinality(CollectSubnets24(probe.bootstrap_peers, {})) = 3

\* C23: validate_network_config(config) returns Ok exactly when
\* max_connections > 0 and the bootstrap list is empty or passes
\* validate_bootstrap_peers.
C23_NetworkConfig ==
    result.op = "validate_network_config"
      => ( result.ok <=> /\ probe.max_connections > 0
                         /\ \/ Len(probe.bootstrap_peers) = 0
                            \/ validate_bootstrap_peers(probe.bootstrap_peers) )

\* An empty bootstrap list with a positive max_connections has been accepted.
C23_Witness ==
    /\ result.op = "validate_network_config"
    /\ result.ok
    /\ probe.bootstrap_peers = <<>>
    /\ probe.max_connections > 0

-----------------------------------------------------------------------------
(* Claims on the ConnectionRateLimiter, under SpecLimiter.                  *)

\* C24: for an IP whose record has a failure count below max_failures,
\* can_attempt(ip) is true whenever at least max_delay has elapsed since its
\* last recorded attempt or failure, whatever the failure count.
C24_WaitAtMostMaxDelay ==
    \A ip \in LimiterIps :
        ( /\ ip \in DOMAIN limiter.attempts
          /\ limiter.attempts[ip][2] < limiter.max_failures
          /\ elapsed(limiter.attempts[ip][1], now) >= limiter.max_delay )
        => ConnectionRateLimiter_can_attempt(limiter, ip, now)

\* After 3 failures with base_delay 1 and max_delay 2 (uncapped backoff 4),
\* can_attempt has just answered true exactly 2 ticks after the last failure.
C24_Witness ==
    /\ result.op = "can_attempt"
    /\ result.ok
    /\ result.prev = 3
    /\ limiter.base_delay = 1
    /\ limiter.max_delay = 2
    /\ result.ip \in DOMAIN limiter.attempts
    /\ elapsed(limiter.attempts[result.ip][1], now) = 2

\* C25: time_until_allowed(ip) returns Duration::MAX exactly when ip's
\* recorded failure count has reached max_failures, zero exactly when
\* can_attempt(ip) is true, and otherwise the positive remainder
\* delay(n) - elapsed; it never changes the limiter.
C25_TimeUntilAllowed ==
    [][ \A ip \in LimiterIps :
          ( /\ result'.op = "time_until_allowed"
            /\ result'.ip = ip
            /\ TimeUntilAllowed(ip) )
          => /\ limiter' = limiter
             /\ result'.prev = Duration_MAX <=> Blocked(limiter, ip)
             /\ result'.prev = 0 <=> ConnectionRateLimiter_can_attempt(limiter, ip, now)
             /\ ( ~Blocked(limiter, ip) /\ ~ConnectionRateLimiter_can_attempt(limiter, ip, now) )
                  => /\ result'.prev > 0
                     /\ result'.prev =
                          BackoffDelay(limiter.base_delay, limiter.max_delay,
                                       limiter.attempts[ip][2])
                            - elapsed(limiter.attempts[ip][1], now)
      ]_vars

\* One tick into a backoff of two ticks, time_until_allowed has just returned 1.
C25_Witness ==
    /\ result.op = "time_until_allowed"
    /\ result.prev = 1
    /\ result.ip \in DOMAIN limiter.attempts
    /\ limiter.attempts[result.ip][2] >= 2
    /\ elapsed(limiter.attempts[result.ip][1], now) = 1

\* time_until_allowed has just returned Duration::MAX for a blocked IP.
C25_WitnessNever ==
    /\ result.op = "time_until_allowed"
    /\ result.prev = Duration_MAX
    /\ limiter.max_failures >= 1

\* C26: cleanup(max_age) removes exactly the records whose last-attempt
\* instant is older than max_age (age > max_age) and leaves every other record
\* in place with its instant and failure count; a record whose age equals
\* max_age is kept.
C26_CleanupRemovesOlder ==
    [][ \A max_age \in 0..MaxAge :
          ( /\ result'.op = "cleanup"
            /\ Cleanup(max_age) )
          => /\ DOMAIN limiter'.attempts \subseteq DOMAIN limiter.attempts
             /\ \A ip \in DOMAIN limiter.attempts :
                   IF elapsed(limiter.attempts[ip][1], now) > max_age
                   THEN ip \notin DOMAIN limiter'.attempts
                   ELSE /\ ip \in DOMAIN limiter'.attempts
                        /\ limiter'.attempts[ip] = limiter.attempts[ip]
      ]_vars

\* C27: failure_count(ip) never decreases across record_attempt and
\* record_failure calls or the passage of time; it drops, to 0, only through
\* record_success or a cleanup that removes the record; each record_failure
\* raises it by exactly one (saturating at the u32 maximum) and stamps the
\* record with the current instant.
C27_FailureCountMonotone ==
    [][ \A ip \in LimiterIps :
          /\ ConnectionRateLimiter_failure_count(limiter', ip)
               < ConnectionRateLimiter_failure_count(limiter, ip)
             => /\ result'.op \in {"record_success", "cleanup"}
                /\ ip \notin DOMAIN limiter'.attempts
                /\ ConnectionRateLimiter_failure_count(limiter', ip) = 0
          /\ ( /\ result'.op = "record_failure"
               /\ result'.ip = ip
               /\ RecordFailure(ip) )
             => /\ ConnectionRateLimiter_failure_count(limiter', ip)
                     = IF ConnectionRateLimiter_failure_count(limiter, ip) = u32_MAX
                       THEN u32_MAX
                       ELSE ConnectionRateLimiter_failure_count(limiter, ip) + 1
                /\ limiter'.attempts[ip][1] = now
      ]_vars

\* A third failure has just been recorded, later than the second one.
C27_Witness ==
    /\ result.op = "record_failure"
    /\ result.prev = 2
    /\ now >= 1
    /\ result.ip \in DOMAIN limiter.attempts
    /\ limiter.attempts[result.ip] = <<now, 3>>

\* record_attempt has just restamped a record holding two failures.
C27_WitnessAttempt ==
    /\ result.op = "record_attempt"
    /\ result.prev = 2
    /\ now >= 1
    /\ result.ip \in DOMAIN limiter.attempts
    /\ limiter.attempts[result.ip] = <<now, 2>>

\* C28: record_attempt(ip) sets ip's last-attempt instant to the current time
\* and leaves its failure count unchanged, creating a record with count 0
\* when none exists; it never turns an IP that is not blocked into a
\* permanently blocked one.
C28_RecordAttemptKeepsCount ==
    [][ \A ip \in LimiterIps :
          ( /\ result'.op = "record_attempt"
            /\ result'.ip = ip
            /\ RecordAttempt(ip) )
          => /\ ip \in DOMAIN limiter'.attempts
             /\ limiter'.attempts[ip]
                  = <<now, ConnectionRateLimiter_failure_count(limiter, ip)>>
             /\ ~Blocked(limiter, ip) => ~Blocked(limiter', ip)
      ]_vars

\* C29: cleanup(max_age) never unblocks a permanently blocked IP: a record
\* whose failure count has reached max_failures survives every cleanup and
\* can_attempt(ip) stays false.
C29_CleanupKeepsBlocks ==
    [][ \A ip \in LimiterIps :
          ( /\ result'.op = "cleanup"
            /\ Blocked(limiter, ip) )
          => /\ Blocked(limiter', ip)
             /\ ~ConnectionRateLimiter_can_attempt(limiter', ip, now')
      ]_vars

\* C30: ConnectionTracker.add_connection for an untracked IP returns an error
\* and leaves the tracked set unchanged when current_count() = max_connections;
\* when current_count() < max_connections it inserts the IP and raises
\* current_count() by exactly one; can_accept_connection() is true exactly in
\* the second case.
C30_AddUntracked ==
    [][ /\ \A ip \in IpAddrs :
             ( /\ result'.op = "add_total"
               /\ result'.ip = ip
               /\ AddTotal(ip)
               /\ ip \notin tracker.connections )
             => /\ ConnectionTracker_current_count(tracker) = tracker.max_connections
                     => /\ ~result'.ok
                        /\ tracker'.connections = tracker.connections
                /\ ConnectionTracker_current_count(tracker) < tracker.max_connections
                     => /\ result'.ok
                        /\ tracker'.connections = tracker.connections \cup {ip}
                        /\ ConnectionTracker_current_count(tracker')
                             = ConnectionTracker_current_count(tracker) + 1
                /\ ConnectionTracker_can_accept_connection(tracker)
                     <=> ConnectionTracker_current_count(tracker) < tracker.max_connections
        /\ ( /\ result'.op = "can_accept_total"
             /\ CanAcceptTotal )
           => ( result'.ok
                  <=> ConnectionTracker_current_count(tracker) < tracker.max_connections )
      ]_vars

\* The add of an untracked IP has just taken the last free slot of a tracker
\* with max_connections = MaxConn.
C30_Witness ==
    /\ result.op = "add_total"
    /\ result.ok
    /\ tracker.max_connections = MaxConn
    /\ result.prev = MaxConn - 1
    /\ ConnectionTracker_current_count(tracker) = MaxConn
    /\ result.ip \in tracker.connections

\* C31: in every reachable state of a ConnectionTracker, has_connection(ip) is
\* true exactly for the IPs whose latest add_connection succeeded with no
\* later remove_connection (no IP at the start; after add_connection(ip) it
\* is true for ip exactly when the call returned Ok; after
\* remove_connection(ip) it is false for ip; no call changes it for another
\* IP), current_count() is the number of such IPs, remaining_capacity() is
\* max_connections - current_count() and never negative, and removing a
\* tracked IP from a full tracker lets exactly one new IP be added.
C31_TrackedSet ==
    /\ \A ip \in IpAddrs : ~ConnectionTracker_has_connection(tracker, ip)
    /\ [][ /\ \A ip \in IpAddrs :
                /\ (result'.op = "add_total" /\ result'.ip = ip /\ AddTotal(ip))
                     => ( ConnectionTracker_has_connection(tracker', ip) <=> result'.ok )
                /\ (result'.op = "remove_total" /\ result'.ip = ip /\ RemoveTotal(ip))
                     => ~ConnectionTracker_has_connection(tracker', ip)
                /\ (result'.ip # ip \/ result'.op = "can_accept_total")
                     => ( ConnectionTracker_has_connection(tracker', ip)
                            <=> ConnectionTracker_has_connection(tracker, ip) )
                /\ ( /\ result'.op = "remove_total"
                     /\ result'.ip = ip
                     /\ RemoveTotal(ip)
                     /\ ConnectionTracker_has_connection(tracker, ip)
                     /\ ConnectionTracker_current_count(tracker) = tracker.max_connections )
                   => \A new \in IpAddrs \ tracker'.connections :
                         LET first == ConnectionTracker_add_connection(tracker', new) IN
                         /\ first.ok
                         /\ \A next \in IpAddrs \ first.self.connections :
                               ~ConnectionTracker_add_connection(first.self, next).ok
           /\ ConnectionTracker_current_count(tracker')
                = Cardinality({ip \in IpAddrs : ConnectionTracker_has_connection(tracker', ip)})
           /\ ConnectionTracker_remaining_capacity(tracker')
                = tracker'.max_connections - ConnectionTracker_current_count(tracker')
           /\ ConnectionTracker_remaining_capacity(tracker') >= 0
         ]_vars

\* A tracked IP has just been removed from a tracker that was full with
\* MaxConn IPs.
C31_Witness ==
    /\ result.op = "remove_total"
    /\ tracker.max_connections = MaxConn
    /\ result.prev = MaxConn
    /\ ConnectionTracker_current_count(tracker) = MaxConn - 1
    /\ ~ConnectionTracker_has_connection(tracker, result.ip)
    /\ ConnectionTracker_remaining_capacity(tracker) = 1

-----------------------------------------------------------------------------
(* Further claims on the subnet trackers, under SpecSubnets.                *)

\* C32: on both subnet trackers, can_accept_connection(ip) returns true
\* exactly when add_connection(ip) called in the same state would return Ok,
\* for every IPv4 and IPv6 address and every configured limit.
C32_CanAcceptAgreesWithAdd ==
    [][ \A ip \in SubnetIps :
          /\ (result'.op = "can_accept24" /\ result'.ip = ip /\ CanAccept24(ip))
                => result'.ok = SubnetTracker_add_connection(subnet24, ip).ok
          /\ (result'.op = "add24" /\ result'.ip = ip /\ Add24(ip))
                => result'.ok = SubnetTracker_can_accept_connection(subnet24, ip)
          /\ (result'.op = "can_accept16" /\ result'.ip = ip /\ CanAccept16(ip))
                => result'.ok = Subnet16Tracker_add_connection(subnet16, ip).ok
          /\ (result'.op = "add16" /\ result'.ip = ip /\ Add16(ip))
                => result'.ok = Subnet16Tracker_can_accept_connection(subnet16, ip)
      ]_vars

\* can_accept_connection has just answered false for an address of a /16
\* prefix that holds MaxLimit connections.
C32_Witness ==
    /\ result.op = "can_accept16"
    /\ ~result.ok
    /\ subnet16.max_per_subnet = MaxLimit
    /\ result.prev = MaxLimit

-----------------------------------------------------------------------------
(* SpecConstruct: a SubnetTracker and a Subnet16Tracker built by the same   *)
(* kind of constructor, new(), the derived Default::default() or            *)
(* with_limit(l), and then called in any order.  pc[1] records the          *)
(* constructor.                                                             *)

\* #[derive(Default)]: every field takes its type's default, an empty HashMap
\* and the usize 0.
SubnetTracker_default == [connections |-> EmptyMap, max_per_subnet |-> 0]
Subnet16Tracker_default == [connections |-> EmptyMap, max_per_subnet |-> 0]

Constructors ==
    {[ctor |-> "new", limit |-> 0], [ctor |-> "default", limit |-> 0]}
      \cup {[ctor |-> "with_limit", limit |-> l] : l \in 0..MaxLimit}

Construct24(c) ==
    IF c.ctor = "new" THEN SubnetTracker_new
    ELSE IF c.ctor = "default" THEN SubnetTracker_default
         ELSE SubnetTracker_with_limit(c.limit)

Construct16(c) ==
    IF c.ctor = "new" THEN Subnet16Tracker_new
    ELSE IF c.ctor = "default" THEN Subnet16Tracker_default
         ELSE Subnet16Tracker_with_limit(c.limit)

ConstructIps == {V4(10, 0, 0, 1), V4(11, 0, 0, 1), V6(1)}

InitConstruct ==
    /\ pc \in {<<c>> : c \in Constructors}
    /\ subnet24 = Construct24(pc[1])
    /\ subnet16 = Construct16(pc[1])
    /\ limiter = IdleLimiter
    /\ global = IdleGlobal
    /\ tracker = IdleTracker
    /\ now = 0
    /\ result = NoCall
    /\ admitted = <<>>
    /\ probe = IdleProbe

NextConstruct ==
    \E ip \in ConstructIps :
        \/ CanAccept24(ip)
        \/ Add24(ip)
        \/ Remove24(ip)
        \/ CanAccept16(ip)
        \/ Add16(ip)
        \/ Remove16(ip)

SpecConstruct == InitConstruct /\ [][NextConstruct]_vars

\* C33: a subnet tracker obtained from a parameterless constructor, new() or
\* the derived Default::default(), enforces the default limit, 5 per /24 for
\* SubnetTracker and 3 per /16 for Subnet16Tracker: its add_connection for an
\* IPv4 address succeeds exactly while the prefix holds fewer connections
\* than that.
C33_DefaultLimits ==
    pc[1].ctor \in {"new", "default"}
      => /\ subnet24.max_per_subnet = MAX_PEERS_PER_SUBNET_24
         /\ subnet16.max_per_subnet = MAX_PEERS_PER_SUBNET_16
         /\ (result.op = "add24" /\ result.ip.v = 4)
               => (result.ok <=> result.prev < MAX_PEERS_PER_SUBNET_24)
         /\ (result.op = "add16" /\ result.ip.v = 4)
               => (result.ok <=> result.prev < MAX_PEERS_PER_SUBNET_16)

-----------------------------------------------------------------------------
(* Further claims on the GlobalConnectionRateLimiter, under SpecGlobal.     *)

\* The admissions of the history that are not older than the window at t:
\* those of age at most w.
NotOlderThanWindow(history, t, w) ==
    Cardinality({i \in 1..Len(history) : duration_since(t, history[i]) <= w})

\* C34: an admission counts against the global cap until it is older than the
\* window; an admission whose age equals window_duration is still counted.
\* record_new_connection, can_accept_new_connection and current_count all
\* count the admissions of age at most window_duration.
C34_ExpiresWhenOlder ==
    [][ /\ ( /\ result'.op = "record_new_connection"
             /\ RecordNewConnection )
           => ( result'.ok <=>
                  NotOlderThanWindow(admitted, now, global.window_duration)
                      < global.max_per_window )
        /\ ( /\ result'.op = "can_accept_new_connection"
             /\ CanAcceptNewConnection )
           => ( result'.ok <=>
                  NotOlderThanWindow(admitted, now, global.window_duration)
                      < global.max_per_window )
        /\ GlobalConnectionRateLimiter_current_count(global', now')
             = NotOlderThanWindow(admitted', now', global'.window_duration)
      ]_vars

-----------------------------------------------------------------------------
(* Further claims on validate_bootstrap_peers, under SpecValidate.          *)

\* C35: validate_bootstrap_peers checks the count before the diversity: for
\* a list of fewer than 3 entries the error is the count error (required 3,
\* actual list length) whatever the entries are, and the diversity error
\* (required 3, actual number of distinct /16 prefixes) is returned only for
\* lists of at least 3 entries.  The value returned is Ok exactly when the
\* call succeeds.
C35_CountBeforeDiversity ==
    result.op = "validate_bootstrap_peers"
      => LET peers == probe.bootstrap_peers IN
         /\ result.ok <=> result.prev = Ok
         /\ Len(peers) < 3 => result.prev = Error_Config("peers", 3, Len(peers))
         /\ (result.prev.kind = "Config" /\ result.prev.text = "subnets")
              => /\ Len(peers) >= 3
                 /\ result.prev.required = 3
                 /\ result.prev.got = Cardinality(DistinctSlash16(peers))

\* Two entries of one /16 prefix have been rejected with the count error.
C35_Witness ==
    /\ result.op = "validate_bootstrap_peers"
    /\ probe.bootstrap_peers = <<Ip4Peer(10, 0, 0, 1), Ip4Peer(10, 0, 1, 1)>>
    /\ result.prev = Error_Config("peers", 3, 2)

\* Four entries of two /16 prefixes have been rejected with the diversity
\* error.
C35_WitnessDiversity ==
    /\ result.op = "validate_bootstrap_peers"
    /\ Len(probe.bootstrap_peers) = 4
    /\ result.prev = Error_Config("subnets", 3, 2)

\* The list with its entries in the order given by the permutation f.
Reordered(peers, f) == [i \in 1..Len(peers) |-> peers[f[i]]]

\* C40: bootstrap acceptance is monotone: if validate_bootstrap_peers(peers)
\* returns Ok, it also returns Ok for peers with any further entry appended
\* (IPv4, IPv6, DNS-named or unparseable) and for any reordering of peers.
C40_AcceptanceMonotone ==
    (result.op = "validate_bootstrap_peers" /\ result.ok)
      => LET peers == probe.bootstrap_peers IN
         /\ \A peer \in BootstrapPeers : validate_bootstrap_peers(Append(peers, peer))
         /\ \A f \in Permutations(1..Len(peers)) :
               validate_bootstrap_peers(Reordered(peers, f))

\* A list of three IPv4 entries followed by a DNS-named entry has been
\* accepted: the list is an accepted list with an entry appended, and it has
\* reorderings that start with the entry that has no IP literal.
C40_Witness ==
    /\ result.op = "validate_bootstrap_peers"
    /\ result.ok
    /\ probe.bootstrap_peers
         = <<Ip4Peer(10, 0, 0, 1), Ip4Peer(11, 0, 0, 1), Ip4Peer(12, 0, 0, 1), DnsPeer>>
    /\ validate_bootstrap_peers(SubSeq(probe.bootstrap_peers, 1, 3))

-----------------------------------------------------------------------------
(* SpecHeld: the two subnet trackers under add_connection and               *)
(* remove_connection calls in any order, with the history of the            *)
(* connections each tracker holds: admitted.subnet24[ip] is the number of   *)
(* add_connection(ip) calls that returned Ok on the /24 tracker and were    *)
(* not followed by a remove_connection(ip) yet; admitted.subnet16 is the    *)
(* same for the /16 tracker.                                                *)

\* at most MaxHeld connections are in the history of one tracker
MaxHeld == 3

HeldIps == {V4(10, 0, 0, 1), V4(10, 0, 0, 2), V4(11, 0, 0, 1)}

NoneHeld == [ip \in HeldIps |-> 0]

HeldTotal(held) == SumOver(held, HeldIps)

\* The history after add_connection(ip) returned ok.
HeldAfterAdd(held, ip, ok) ==
    IF ok THEN [held EXCEPT ![ip] = @ + 1] ELSE held

\* The history after remove_connection(ip): one connection of ip, if there is
\* one, is no longer held.
HeldAfterRemove(held, ip) ==
    [held EXCEPT ![ip] = saturating_sub(@, 1)]

InitHeld ==
    /\ subnet24 \in {SubnetTracker_with_limit(l) : l \in 0..MaxLimit}
    /\ subnet16 \in {Subnet16Tracker_with_limit(l) : l \in 0..MaxLimit}
    /\ limiter = IdleLimiter
    /\ global = IdleGlobal
    /\ tracker = IdleTracker
    /\ now = 0
    /\ result = NoCall
    /\ admitted = [subnet24 |-> NoneHeld, subnet16 |-> NoneHeld]
    /\ pc = <<>>
    /\ probe = IdleProbe

HeldAdd24(ip) ==
    LET r == SubnetTracker_add_connection(subnet24, ip) IN
    /\ HeldTotal(admitted.subnet24) < MaxHeld
    /\ subnet24' = r.self
    /\ admitted' = [admitted EXCEPT !.subnet24 = HeldAfterAdd(@, ip, r.ok)]
    /\ result' = Call("add24", ip, r.ok, SubnetTracker_connection_count(subnet24, ip))
    /\ UNCHANGED <<subnet16, limiter, global, tracker, now, pc, probe>>

HeldRemove24(ip) ==
    /\ subnet24' = SubnetTracker_remove_connection(subnet24, ip)
    /\ admitted' = [admitted EXCEPT !.subnet24 = HeldAfterRemove(@, ip)]
    /\ result' = Call("remove24", ip, TRUE, SubnetTracker_connection_count(subnet24, ip))
    /\ UNCHANGED <<subnet16, limiter, global, tracker, now, pc, probe>>

HeldAdd16(ip) ==
    LET r == Subnet16Tracker_add_connection(subnet16, ip) IN
    /\ HeldTotal(admitted.subnet16) < MaxHeld
    /\ subnet16' = r.self
    /\ admitted' = [admitted EXCEPT !.subnet16 = HeldAfterAdd(@, ip, r.ok)]
    /\ result' = Call("add16", ip, r.ok, Subnet16Tracker_connection_count(subnet16, ip))
    /\ UNCHANGED <<subnet24, limiter, global, tracker, now, pc, probe>>

HeldRemove16(ip) ==
    /\ subnet16' = Subnet16Tracker_remove_connection(subnet16, ip)
    /\ admitted' = [admitted EXCEPT !.subnet16 = HeldAfterRemove(@, ip)]
    /\ result' = Call("remove16", ip, TRUE, Subnet16Tracker_connection_count(subnet16, ip))
    /\ UNCHANGED <<subnet24, limiter, global, tracker, now, pc, probe>>

NextHeld ==
    \E ip \in HeldIps :
        \/ HeldAdd24(ip)
        \/ HeldRemove24(ip)
        \/ HeldAdd16(ip)
        \/ HeldRemove16(ip)

SpecHeld == InitHeld /\ [][NextHeld]_vars

\* The connections of the history that share the /24 (the /16) prefix of ip.
HeldInSubnet24(held, ip) ==
    SumOver(held, {other \in HeldIps : extract_subnet_24(other) = extract_subnet_24(ip)})

HeldInSubnet16(held, ip) ==
    SumOver(held, {other \in HeldIps : extract_subnet_16(other) = extract_subnet_16(ip)})

\* C36: for every prefix and any sequence of add_connection and
\* remove_connection calls on a subnet tracker, remove calls for IPs never
\* added or already removed included, the tracked count of the prefix equals
\* the number of connections of that prefix that were added successfully and
\* not yet removed.
C36_CountIsHeld ==
    \A ip \in HeldIps :
        /\ SubnetTracker_connection_count(subnet24, ip)
             = HeldInSubnet24(admitted.subnet24, ip)
        /\ Subnet16Tracker_connection_count(subnet16, ip)
             = HeldInSubnet16(admitted.subnet16, ip)

-----------------------------------------------------------------------------
(* SpecLockstep: the caller of section 2 of the specification keeping the   *)
(* three trackers in step.  A connection is admitted when all three         *)
(* trackers can accept it, and is then added to all three; a disconnect of  *)
(* a connected IP removes it from all three.  Both are one atomic step      *)
(* under the owner's lock.  admitted[ip] is the number of connections from  *)
(* ip that were admitted and have not disconnected.                         *)

InitLockstep ==
    /\ subnet24 \in {SubnetTracker_with_limit(l) : l \in 0..MaxLimit}
    /\ subnet16 \in {Subnet16Tracker_with_limit(l) : l \in 0..MaxLimit}
    /\ limiter = IdleLimiter
    /\ global = IdleGlobal
    /\ tracker \in {ConnectionTracker_new(k) : k \in 0..MaxConn}
    /\ now = 0
    /\ result = NoCall
    /\ admitted = NoneHeld
    /\ pc = <<>>
    /\ probe = IdleProbe

\* A connection from ip arrives: it is admitted when the three trackers can
\* accept it, and then added to each of them.
AdmitAll(ip) ==
    LET ok == /\ SubnetTracker_can_accept_connection(subnet24, ip)
              /\ Subnet16Tracker_can_accept_connection(subnet16, ip)
              /\ ConnectionTracker_can_accept_connection(tracker)
    IN
    /\ subnet24' = IF ok THEN SubnetTracker_add_connection(subnet24, ip).self ELSE subnet24
    /\ subnet16' = IF ok THEN Subnet16Tracker_add_connection(subnet16, ip).self ELSE subnet16
    /\ tracker' = IF ok THEN ConnectionTracker_add_connection(tracker, ip).self ELSE tracker
    /\ admitted' = HeldAfterAdd(admitted, ip, ok)
    /\ result' = Call("admit", ip, ok, ConnectionTracker_current_count(tracker))
    /\ UNCHANGED <<limiter, global, now, pc, probe>>

\* A connection from ip ends.
DisconnectAll(ip) ==
    /\ admitted[ip] > 0
    /\ subnet24' = SubnetTracker_remove_connection(subnet24, ip)
    /\ subnet16' = Subnet16Tracker_remove_connection(subnet16, ip)
    /\ tracker' = ConnectionTracker_remove_connection(tracker, ip)
    /\ admitted' = HeldAfterRemove(admitted, ip)
    /\ result' = Call("disconnect", ip, TRUE, ConnectionTracker_current_count(tracker))
    /\ UNCHANGED <<limiter, global, now, pc, probe>>

NextLockstep ==
    \E ip \in HeldIps :
        \/ AdmitAll(ip)
        \/ DisconnectAll(ip)

SpecLockstep == InitLockstep /\ [][NextLockstep]_vars

\* C37: when every admitted IPv4 connection is added to the /24 tracker, the
\* /16 tracker and the total tracker, and every disconnect removes its IP
\* from all three, then in every reachable state the three totals are equal,
\* including when the same IP is admitted more than once before it
\* disconnects.
C37_TotalsAgree ==
    /\ SubnetTracker_total_connections(subnet24)
         = Subnet16Tracker_total_connections(subnet16)
    /\ Subnet16Tracker_total_connections(subnet16)
         = ConnectionTracker_current_count(tracker)

-----------------------------------------------------------------------------
(* SpecRetry: a caller that keeps calling record_new_connection while the   *)
(* clock advances.  admitted holds the time of the last successful          *)
(* admission only.  The clock advances as long as it is below MaxTime and   *)
(* the caller retries as long as a retry is possible: both steps are        *)
(* weakly fair.                                                             *)

InitRetry ==
    /\ subnet24 = IdleSubnet24
    /\ subnet16 = IdleSubnet16
    /\ limiter = IdleLimiter
    /\ global \in {GlobalConnectionRateLimiter_with_window(m, w) :
                      m \in 0..MaxPerWindow, w \in 0..MaxWindow}
    /\ tracker = IdleTracker
    /\ now = 0
    /\ result = NoCall
    /\ admitted = <<>>
    /\ pc = <<>>
    /\ probe = IdleProbe

RetryNewConnection ==
    LET r == GlobalConnectionRateLimiter_record_new_connection(global, now) IN
    /\ global' = r.self
    /\ result' = Call("record_new_connection", V6(0), r.ok, Len(global.connection_times))
    /\ admitted' = IF r.ok THEN <<now>> ELSE admitted
    /\ UNCHANGED <<subnet24, subnet16, limiter, tracker, now, pc, probe>>

NextRetry ==
    \/ Tick
    \/ RetryNewConnection

SpecRetry ==
    InitRetry /\ [][NextRetry]_vars /\ WF_vars(Tick) /\ WF_vars(RetryNewConnection)

\* The last call was a record_new_connection that returned false (true).
RetryRejected == result.op = "record_new_connection" /\ ~result.ok
RetryAdmitted == result.op = "record_new_connection" /\ result.ok

\* C38: for a global limiter with max_per_window > 0 rejection is never
\* permanent: once window_duration has passed since the last successful
\* admission, record_new_connection returns true; so under advancing time a
\* caller that keeps retrying is eventually admitted (whenever the window
\* ends within the instants of the clock).
C38_RejectionNotPermanent ==
    /\ [][ ( /\ result'.op = "record_new_connection"
             /\ RetryNewConnection
             /\ global.max_per_window > 0
             /\ \/ admitted = <<>>
                \/ duration_since(now, admitted[1]) >= global.window_duration )
           => result'.ok ]_vars
    /\ ( /\ RetryRejected
         /\ global.max_per_window > 0
         /\ now + global.window_duration <= MaxTime )
         ~> RetryAdmitted

\* A retry has been admitted by a limiter that held max_per_window > 0
\* admissions before the call, the last of them window_duration ago: the
\* limiter rejected until this instant.
C38_Witness ==
    /\ RetryAdmitted
    /\ global.max_per_window > 0
    /\ result.prev = global.max_per_window
    /\ global.window_duration > 0
    /\ global.connection_times = <<now>>

-----------------------------------------------------------------------------
(* SpecIsolation: two runs of one ConnectionRateLimiter configuration on a  *)
(* shared clock.  limiter is the limiter of the first run, probe the        *)
(* limiter of the second.  The runs apply the same operations to IsolationB *)
(* and each its own operations to IsolationA.                               *)

IsolationA == V4(10, 0, 0, 1)
IsolationB == V4(10, 0, 0, 2)

IsolationConfigs ==
    { ConnectionRateLimiter_with_config(1, 2, 2),
      ConnectionRateLimiter_with_config(1, 1, 1) }

IsolationOps == {"record_attempt", "record_failure", "record_success"}

\* The limiter after the operation op for ip at the instant at.
ApplyOp(self, op, ip, at) ==
    CASE op = "record_attempt" -> ConnectionRateLimiter_record_attempt(self, ip, at)
      [] op = "record_failure" -> ConnectionRateLimiter_record_failure(self, ip, at)
      [] op = "record_success" -> ConnectionRateLimiter_record_success(self, ip)

\* The failure count stays within the model's bound max_failures + 1.
OpWithinBound(self, op, ip) ==
    op = "record_failure" => ConnectionRateLimiter_failure_count(self, ip) <= self.max_failures

\* What the limiter answers about ip at the instant at.
Answers(self, ip, at) ==
    [failure_count |-> ConnectionRateLimiter_failure_count(self, ip),
     can_attempt |-> ConnectionRateLimiter_can_attempt(self, ip, at),
     time_until_allowed |-> ConnectionRateLimiter_time_until_allowed(self, ip, at)]

InitIsolation ==
    /\ subnet24 = IdleSubnet24
    /\ subnet16 = IdleSubnet16
    /\ limiter \in IsolationConfigs
    /\ global = IdleGlobal
    /\ tracker = IdleTracker
    /\ now = 0
    /\ result = NoCall
    /\ admitted = <<>>
    /\ pc = <<>>
    /\ probe = limiter

TickIsolation ==
    /\ now < IsolationMaxTime
    /\ now' = now + 1
    /\ result' = NoCall
    /\ UNCHANGED <<subnet24, subnet16, limiter, global, tracker, admitted, pc, probe>>

\* Both runs apply op to IsolationB.
SharedOp(op) ==
    /\ OpWithinBound(limiter, op, IsolationB)
    /\ OpWithinBound(probe, op, IsolationB)
    /\ limiter' = ApplyOp(limiter, op, IsolationB, now)
    /\ probe' = ApplyOp(probe, op, IsolationB, now)
    /\ result' = Call(op, IsolationB, TRUE, 0)
    /\ UNCHANGED <<subnet24, subnet16, global, tracker, now, admitted, pc>>

\* The first run applies op to IsolationA.
FirstRunOp(op) ==
    /\ OpWithinBound(limiter, op, IsolationA)
    /\ limiter' = ApplyOp(limiter, op, IsolationA, now)
    /\ result' = Call(op, IsolationA, TRUE, 1)
    /\ UNCHANGED <<subnet24, subnet16, global, tracker, now, admitted, pc, probe>>

\* The second run applies op to IsolationA.
SecondRunOp(op) ==
    /\ OpWithinBound(probe, op, IsolationA)
    /\ probe' = ApplyOp(probe, op, IsolationA, now)
    /\ result' = Call(op, IsolationA, TRUE, 2)
    /\ UNCHANGED <<subnet24, subnet16, limiter, global, tracker, now, admitted, pc>>

NextIsolation ==
    \/ TickIsolation
    \/ \E op \in IsolationOps :
        \/ SharedOp(op)
        \/ FirstRunOp(op)
        \/ SecondRunOp(op)

SpecIsolation == InitIsolation /\ [][NextIsolation]_vars

\* C39: per-IP isolation in the ConnectionRateLimiter: record_attempt,
\* record_failure and record_success for one IP never change failure_count,
\* can_attempt or time_until_allowed of any other IP; two runs that differ
\* only in the operations applied to IP a give identical answers for every
\* IP b different from a.
C39_PerIpIsolation ==
    /\ [](Answers(limiter, IsolationB, now) = Answers(probe, IsolationB, now))
    /\ [][ \A op \in IsolationOps :
             /\ (result'.op = op /\ result'.prev = 1 /\ FirstRunOp(op))
                  => Answers(limiter', IsolationB, now') = Answers(limiter, IsolationB, now)
             /\ (result'.op = op /\ result'.prev = 2 /\ SecondRunOp(op))
                  => Answers(probe', IsolationB, now') = Answers(probe, IsolationB, now)
             /\ (result'.op = op /\ result'.prev = 0 /\ SharedOp(op))
                  => /\ Answers(limiter', IsolationA, now')
                          = Answers(limiter, IsolationA, now)
                     /\ Answers(probe', IsolationA, now') = Answers(probe, IsolationA, now)
         ]_vars

\* The runs differ on IsolationA, blocked in the first run and unknown to the
\* second, and the first run has just applied an operation to IsolationA
\* while IsolationB has failures and still has to wait.
C39_Witness ==
    /\ result.ip = IsolationA
    /\ result.prev = 1
    /\ ConnectionRateLimiter_failure_count(limiter, IsolationA) >= limiter.max_failures
    /\ IsolationA \notin DOMAIN probe.attempts
    /\ ConnectionRateLimiter_failure_count(limiter, IsolationB) > 0
    /\ ConnectionRateLimiter_time_until_allowed(limiter, IsolationB, now) > 0

=============================================================================
